---- MODULE Spec2Model ----
(***************************************************************************)
(* Workspace session multiplexer of CodexMonitor.                          *)
(*                                                                         *)
(* One WorkspaceSession of backend/app_server.rs: concurrent callers of    *)
(* send_request_for_workspace, the stdout reader task of                   *)
(* spawn_workspace_session and its shutdown sweep, workspace registration  *)
(* and background thread callbacks.  Every lock acquisition (`.lock()      *)
(* .await`) of the source is one step of the task that performs it.        *)
(*   Spec      : the session under request traffic and the agent's exit.   *)
(*   RouteSpec : responses that bind a thread, and the routing of the      *)
(*               agent's messages about it.                                *)
(*   EventSpec : notification traffic while workspaces and background      *)
(*               subscribers come and go.                                  *)
(*                                                                         *)
(* One control-plane connection of bin/codex_monitor_daemon.rs             *)
(* (handle_client).                                                        *)
(*   ConnSpec  : the lines of one client and the answers to them.          *)
(***************************************************************************)
EXTENDS Integers, Sequences, FiniteSets, TLC

\* ---------------------------------------------------------------- bounds
\* Number of concurrent caller tasks of send_request_for_workspace.
MaxCalls == 2
\* Number of stdout lines the reader takes from the agent (EOF can come sooner).
MaxLines == 2
\* Number of registration operations (register/unregister workspace or callback).
MaxRegs == 2
\* EventSpec: number of caller tasks and of stdout lines.
MaxEventCalls == 1
MaxEventLines == 2
\* RouteSpec: number of caller tasks and of stdout lines.
MaxRouteCalls == 2
MaxRouteLines == 3
\* Number of lines a control-plane client sends on its connection.
MaxConnLines == 3

\* ---------------------------------------------------------------- values
None == "none"

Workspaces == {"W1", "W2"}
\* owner_workspace_id / fallback_workspace_id: entry.id of the spawned session.
owner_workspace_id == "W1"
Threads == {"T1", "T2"}
Subscribers == {"S1", "S2"}
Calls == 1..MaxCalls

\* A JSON value under a key that extract_thread_id looks at: missing, present
\* but not a string, or a string (a thread id).
Absent == "absent"
NonString == "nonstring"

\* Strings the path functions work on are sequences of one-character strings.
Slash == "/"
Backslash == "\\"

PathRoot == <<"/", "a">>
PathSub == <<"/", "a", "/", "s">>
PathSubTrailing == <<"/", "a", "/", "s", "/">>
PathOther == <<"/", "a", "s">>
PathEmpty == <<>>

\* entry.path of the workspace the session was spawned for.
OwnerPath == PathRoot

\* ---------------------------------------------------------------- strings
UpperChars == {"A", "C", "D", "N", "S", "U"}

to_ascii_lowercase_char(c) ==
    CASE c = "A" -> "a"
      [] c = "C" -> "c"
      [] c = "D" -> "d"
      [] c = "N" -> "n"
      [] c = "S" -> "s"
      [] c = "U" -> "u"
      [] OTHER -> c

to_ascii_lowercase(s) == [i \in 1..Len(s) |-> to_ascii_lowercase_char(s[i])]

is_ascii_alphabetic(c) ==
    c \in UpperChars \cup {"a", "c", "d", "n", "s", "u"}

starts_with(s, p) == Len(s) >= Len(p) /\ SubSeq(s, 1, Len(p)) = p

replace_backslash(s) == [i \in 1..Len(s) |-> IF s[i] = Backslash THEN Slash ELSE s[i]]

RECURSIVE trim_end_matches_slash(_)
trim_end_matches_slash(s) ==
    IF Len(s) > 0 /\ s[Len(s)] = Slash
    THEN trim_end_matches_slash(SubSeq(s, 1, Len(s) - 1))
    ELSE s

strip_namespace_prefix(normalized) ==
    LET lower == to_ascii_lowercase(normalized) IN
    IF starts_with(lower, <<"/", "/", "?", "/", "u", "n", "c", "/">>)
    THEN <<"/", "/">> \o SubSeq(normalized, 9, Len(normalized))
    ELSE IF starts_with(lower, <<"/", "/", "?", "/">>) \/ starts_with(lower, <<"/", "/", ".", "/">>)
    THEN SubSeq(normalized, 5, Len(normalized))
    ELSE normalized

normalize_root_path(value) ==
    LET trimmed == trim_end_matches_slash(replace_backslash(value)) IN
    IF Len(trimmed) = 0 THEN <<>>
    ELSE
      LET normalized == strip_namespace_prefix(trimmed) IN
      IF Len(normalized) = 0 THEN <<>>
      ELSE
        LET is_drive_path == /\ Len(normalized) >= 3
                             /\ is_ascii_alphabetic(normalized[1])
                             /\ normalized[2] = ":"
                             /\ normalized[3] = Slash
        IN IF is_drive_path \/ starts_with(normalized, <<"/", "/">>)
           THEN to_ascii_lowercase(normalized)
           ELSE normalized

\* ------------------------------------------------------- resolve by cwd
\* A filter that accepts every root the normalized cwd starts with.
matching_roots_prefix(normalized_cwd, roots) ==
    {w \in DOMAIN roots :
        /\ Len(roots[w]) > 0
        /\ \/ roots[w] = normalized_cwd
           \/ /\ Len(normalized_cwd) > Len(roots[w])
              /\ starts_with(normalized_cwd, roots[w])}

\* The candidates of the filter_map: (workspace_id, root.len()) of every
\* non-empty root that equals the normalized cwd or is a prefix followed by '/'.
matching_roots(normalized_cwd, roots) ==
    {w \in DOMAIN roots :
        /\ Len(roots[w]) > 0
        /\ \/ roots[w] = normalized_cwd
           \/ /\ Len(normalized_cwd) > Len(roots[w])
              /\ starts_with(normalized_cwd, roots[w])
              /\ normalized_cwd[Len(roots[w]) + 1] = Slash}

\* The set of results resolve_workspace_for_cwd can return: max_by_key over the
\* iteration order of a HashMap, which is arbitrary, so among several roots of
\* the maximal length any one can be the result.  {None} stands for Option::None.
resolve_workspace_for_cwd(cwd, roots) ==
    LET normalized_cwd == normalize_root_path(cwd) IN
    IF Len(normalized_cwd) = 0 THEN {None}
    ELSE
      LET cands == matching_roots(normalized_cwd, roots) IN
      IF cands = {} THEN {None}
      ELSE {w \in cands : \A v \in cands : Len(roots[v]) <= Len(roots[w])}

\* ------------------------------------------------------------- JSON values
\* An object that extract_thread_id looks into: the values under "threadId",
\* "thread_id" and "thread"."id" (Absent also when "thread" itself is missing).
\* `present` is FALSE when the key that should hold the object is missing.
Container(a, b, c) == [present |-> TRUE, threadId |-> a, thread_id |-> b, thread |-> c]
EmptyObj == Container(Absent, Absent, Absent)
CamelObj(t) == Container(t, Absent, Absent)
AbsentObj == [present |-> FALSE, threadId |-> Absent, thread_id |-> Absent, thread |-> Absent]

\* A line of the agent's stdout that parsed as a JSON object:
\*   ok      FALSE for a line serde_json could not parse
\*   id      value.get("id").as_u64(): NoId or a number
\*   method  value.get("method"): Absent, NonString or the method name
\*   params, result   AbsentObj or the object under that key
\*   error   whether an "error" key is present
\*   data    the objects {id, cwd} of the array result.data (a thread/list page)
NoId == -1
Msg(i, m, p, r, e, d) ==
    [ok |-> TRUE, id |-> i, method |-> m, params |-> p, result |-> r, error |-> e,
     data |-> d]

NoMsg == Msg(NoId, Absent, AbsentObj, AbsentObj, FALSE, <<>>)
ParseErrorLine == [NoMsg EXCEPT !.ok = FALSE]
\* A line of white space only; for a line that is no JSON `data` holds its text.
BlankLine == [NoMsg EXCEPT !.ok = FALSE, !.data = <<" ">>]

\* (Variant: no line counts as blank.)
trim_is_empty_never(line) == FALSE

\* line 570: line.trim().is_empty()
trim_is_empty(line) == ~line.ok /\ line.data = <<" ">>

\* An entry of a thread/list result; has_cwd is FALSE for cwd: None.
Entry(t, cwd) == [thread_id |-> t, has_cwd |-> TRUE, cwd |-> cwd]
EntryNoCwd(t) == [thread_id |-> t, has_cwd |-> FALSE, cwd |-> <<>>]

InboundIds == 1..MaxCalls

Response(i, r, d) == Msg(i, Absent, AbsentObj, r, FALSE, d)
ErrorResponse(i) == Msg(i, Absent, AbsentObj, AbsentObj, TRUE, <<>>)
IdOnly(i) == Msg(i, Absent, AbsentObj, AbsentObj, FALSE, <<>>)
ServerRequest(i, m, p) == Msg(i, m, p, AbsentObj, FALSE, <<>>)
Notification(m, p) == Msg(NoId, m, p, AbsentObj, FALSE, <<>>)

\* The lines the agent can send in Spec: for each request id a result that
\* carries a thread id and a message with nothing but the id, and an error.
RequestTraffic ==
    UNION {{Response(i, CamelObj("T1"), <<>>), IdOnly(i)} : i \in InboundIds}
    \cup {ErrorResponse(1)}

\* The lines the agent can send in RouteSpec: answers to request 1 (a result
\* with a thread id, a thread/list page), and notifications and an agent
\* request about the thread.
RouteTraffic ==
    {Response(1, CamelObj("T1"), <<>>),
     Response(1, EmptyObj, <<Entry("T1", PathSubTrailing)>>),
     Notification("turn/started", CamelObj("T1")),
     Notification("thread/archived", CamelObj("T1")),
     ServerRequest(1, "item/requestApproval", CamelObj("T1"))}

\* The lines the agent can send in EventSpec: notifications and agent requests
\* with and without thread id, the account-level methods among them, a line
\* that is not JSON and a blank line.
EventTraffic ==
    {Notification(m, p) :
        m \in {"turn/started", "account/updated"},
        p \in {AbsentObj, CamelObj("T1")}}
    \cup {ServerRequest(7, "item/requestApproval", CamelObj("T1")),
          ServerRequest(7, "account/updated", AbsentObj),
          ParseErrorLine, BlankLine}

\* A call of send_request_for_workspace: workspace_id, method and the thread id
\* the params carry (None when they carry none).
OutReq(w, m, t) == [ws |-> w, method |-> m, tid |-> t]
OutReqs == {OutReq("W2", "thread/start", None), OutReq("W2", "turn/start", "T1")}

\* The calls of RouteSpec and of EventSpec.
RouteReqs == {OutReq("W2", "thread/start", None), OutReq("W1", "thread/list", None),
              OutReq("W1", "turn/start", "T1")}

EventReqs == {OutReq("W2", "turn/start", "T1")}

extract_from_container(container) ==
    IF ~container.present THEN None
    ELSE
      LET first == IF container.threadId # Absent THEN container.threadId
                   ELSE container.thread_id
      IN IF first \in Threads THEN first
         ELSE IF container.thread \in Threads THEN container.thread
         ELSE None

extract_thread_id(value) ==
    LET from_params == extract_from_container(value.params) IN
    IF from_params # None THEN from_params
    ELSE extract_from_container(value.result)

\* collect_entries on the result object and then on each object of result.data.
\* The result object itself has no "cwd" and no "id" key in this model, so the
\* entry it yields (when it carries a thread id) has cwd None.
extract_thread_entries_from_thread_list_result(value) ==
    IF ~value.result.present THEN <<>>
    ELSE
      LET top == extract_from_container(value.result) IN
      (IF top # None THEN <<EntryNoCwd(top)>> ELSE <<>>) \o value.data

maybe_id(value) == value.id
has_method(value) == value.method # Absent
has_result_or_error(value) == value.result.present \/ value.error
method_name(value) == IF value.method \in {Absent, NonString} THEN None ELSE value.method

is_global_workspace_notification(method) ==
    method \in {"account/updated", "account/rateLimits/updated", "account/login/completed"}

\* (variant) the fan-out decision without the test for a thread id
should_broadcast_ignoring_thread(method, thread_id, req_workspace) ==
    is_global_workspace_notification(method) /\ req_workspace = None

should_broadcast_global_workspace_notification(method, thread_id, req_workspace) ==
    /\ method # None
    /\ is_global_workspace_notification(method)
    /\ thread_id = None
    /\ req_workspace = None

\* ------------------------------------------------------------------ state
VARIABLES
    \* WorkspaceSession
    next_id, pending, request_context, thread_workspace, workspace_ids,
    workspace_roots, background_thread_callbacks,
    \* the agent's stdin: what write_message has written, in order
    wire,
    \* the oneshot channel of each allocated request id: st is "open", "closed"
    \* (sender dropped without a value), "dropped" (receiver dropped) or "sent",
    \* and then val is the response
    chan,
    \* the caller tasks of send_request_for_workspace
    call,
    \* the stdout reader task: position, current line and its locals
    rpc, cur, locals, lines,
    \* what processing `cur` gave the event sink and the background subscribers
    emitted, bgsent,
    \* history: tx.send count per request id; the workspace each request id was
    \* issued for; per thread, the workspace of the request whose response carried
    \* it (resp_carried) and the workspace the reader bound it to for a response
    \* (resp_bound), each until an archive or a re-binding by something else; the
    \* two as they were when `cur` was routed; the registry operations so far
    delivered, issued, resp_carried, resp_bound, observed, reg_log,
    \* history: the ids of the requests that were in flight and unresolved when
    \* the reader met EOF
    inflight_at_eof,
    \* the task running register_workspace_with_path / unregister_workspace
    reg_task,
    \* one control-plane connection (handle_client): config.token; the flag; the
    \* messages sent on out_tx so far; the lines (by index) given to
    \* handle_rpc_request; the lines read; the position of the loop; the number
    \* of forward_events tasks; how many of out_tx's messages the write task has
    \* written to the socket, and the write task's state
    token, authenticated, out_tx, handled, conn_in, conn_pc, forwarders,
    written, writer

sessionVars == <<next_id, pending, request_context, thread_workspace, workspace_ids,
                 workspace_roots, background_thread_callbacks, wire, chan, call,
                 rpc, cur, locals, lines, emitted, bgsent, delivered, issued,
                 resp_carried, resp_bound, observed, reg_log, inflight_at_eof,
                 reg_task>>
connVars == <<token, authenticated, out_tx, handled, conn_in, conn_pc, forwarders,
              written, writer>>
VARIABLES
    \* the daemon's broadcast channel (main, DaemonEventSink): every event the
    \* sink accepted, in emission order
    bus,
    \* per connection: its forward_events task (st, the number of events of bus
    \* its receiver is past, and the number it subscribed at); the messages sent
    \* on its out_tx; its write task (st and how many messages it has written);
    \* the position of its read loop
    subs, outq, sock, hpc,
    \* history: per connection, the events its receiver skipped by lagging
    lost

busVars == <<bus, subs, outq, sock, hpc, lost>>

VARIABLES
    \* spawn_workspace_session after the child is spawned: its position, what it
    \* returned, the child, and (history) what it did, in order
    hs

VARIABLES
    \* DaemonState: the workspaces map, the sessions map (workspace id to
    \* session) and workspaces.json as last written
    workspaces, sessions, persisted,
    \* the directories that exist; the sessions whose child was killed
    fs, killed,
    \* the ids, sessions and handler calls handed out so far
    alloc,
    \* the tasks (one per connection) running handlers of DaemonState
    task

regVars == <<workspaces, sessions, persisted, fs, killed, alloc, task>>

VARIABLES
    \* the workspace-root resolver of the session: the paths given at
    \* registration, the roots map, the cwd looked up and what was computed
    resolver,
    \* the login state machine of codex_core (the per-workspace cancel map, the
    \* calls in progress and what went to the agent)
    login,
    \* the daemon's command line and what parse_args and main made of it
    cli,
    \* the task that generates a commit message on a background thread: its
    \* position, the thread it started and how it ended
    bgtask

coreVars == <<resolver, login, cli, bgtask>>

VARIABLES
    \* the desktop command layer (codex.rs): the holder of AppState.sessions'
    \* lock and the commands in progress
    desktop,
    \* tailscale_daemon_stop: the listener on the configured port, the call's
    \* position, what it probed and issued, and the status it stored
    tailscale

shellVars == <<desktop, tailscale>>

daemonVars == <<busVars, hs, regVars, coreVars, shellVars>>

busRest == <<sessionVars, connVars, hs, regVars, coreVars, shellVars>>

coreRest == <<sessionVars, connVars, busVars, hs, regVars, shellVars>>

shellRest == <<sessionVars, connVars, busVars, hs, regVars, coreVars>>

vars == <<sessionVars, connVars, daemonVars>>

\* ------------------------------------------------------- function helpers
Put(f, k, v) == [x \in DOMAIN f \cup {k} |-> IF x = k THEN v ELSE f[x]]
Del(f, k) == [x \in DOMAIN f \ {k} |-> f[x]]
EmptyMap == [x \in {} |-> None]
Get(f, k) == IF k \in DOMAIN f THEN f[k] ELSE None

Chan(st, val) == [st |-> st, val |-> val]

\* ------------------------------------------------------------------- Init
\* History of a thread's binding: what is left of h when thread t is bound to
\* workspace w by something else, and what is left when the bindings become tw.
Rebound(h, t, w) == IF Get(h, t) \in {None, w} THEN h ELSE Del(h, t)
Surviving(h, tw) == [t \in {x \in DOMAIN h : Get(tw, x) = h[x]} |-> h[t]]
\* What the pass for `cur` saw: at its routing step, the two histories of the
\* thread and its binding in thread_workspace; whether it took the snapshot of
\* workspace_ids, and the snapshot; whether `cur` was read after the request
\* with its id had returned the timeout error.
NoExpect == [carried |-> None, bound |-> None, binding |-> None,
             snapshot_taken |-> FALSE, attached |-> {}, late |-> FALSE]

RegIdle == [pc |-> "idle", w |-> None, root |-> <<>>]

\* The locals of one pass of the reader loop (line 596-597, 619, 633).
NoLocals == [request_workspace |-> None, request_method |-> None,
             workspace_roots |-> EmptyMap, routed_workspace_id |-> None]

NewCall == [pc |-> "start", ws |-> None, method |-> None, tid |-> None, id |-> NoId,
            ret |-> None, val |-> NoMsg]

SessionInit ==
    /\ next_id = 1
    /\ pending = {}
    /\ request_context = EmptyMap
    /\ thread_workspace = EmptyMap
    /\ workspace_ids = {owner_workspace_id}
    /\ workspace_roots = Put(EmptyMap, owner_workspace_id, normalize_root_path(OwnerPath))
    /\ background_thread_callbacks = EmptyMap
    /\ wire = <<>>
    /\ chan = EmptyMap
    /\ call = [c \in Calls |-> NewCall]
    /\ rpc = "idle"
    /\ cur = NoMsg
    /\ locals = NoLocals
    /\ lines = 0
    /\ emitted = <<>>
    /\ bgsent = <<>>
    /\ delivered = EmptyMap
    /\ issued = EmptyMap
    /\ resp_carried = EmptyMap
    /\ resp_bound = EmptyMap
    /\ observed = NoExpect
    /\ reg_log = <<>>
    /\ inflight_at_eof = {}
    /\ reg_task = RegIdle

\* ------------------------------------------ send_request_for_workspace
\* (variant) a counter that is read and not advanced
fetch_add_without_increment(n) == [id |-> n, next |-> n]

\* self.next_id.fetch_add(1, SeqCst): the id handed out and the new counter.
fetch_add(n) == [id |-> n, next |-> n + 1]

\* line 275-276: allocate the id and create the oneshot channel.  (Caller tasks
\* are interchangeable: task c starts after the tasks below it.)
ReqAlloc(c, reqs) ==
    /\ call[c].pc = "start"
    /\ \A d \in Calls : d < c => call[d].pc # "start"
    /\ \E r \in reqs :
         LET a == fetch_add(next_id) IN
         /\ next_id' = a.next
         /\ chan' = Put(chan, a.id, Chan("open", NoMsg))
         /\ delivered' = Put(delivered, a.id, 0)
         /\ issued' = Put(issued, a.id, r.ws)
         /\ call' = [call EXCEPT ![c] = [@ EXCEPT !.pc = "register", !.ws = r.ws,
                                                  !.method = r.method, !.tid = r.tid,
                                                  !.id = a.id]]
    /\ UNCHANGED <<pending, request_context, thread_workspace, workspace_ids,
                   workspace_roots, background_thread_callbacks, wire, rpc, cur, locals,
                   lines, emitted, bgsent, resp_carried, resp_bound, observed, reg_log,
                   inflight_at_eof, reg_task, connVars, daemonVars>>

\* line 277: self.register_workspace(workspace_id) (no path: roots untouched).
ReqRegister(c) ==
    /\ call[c].pc = "register"
    /\ workspace_ids' = workspace_ids \cup {call[c].ws}
    /\ call' = [call EXCEPT ![c].pc = "pending"]
    /\ UNCHANGED <<next_id, pending, request_context, thread_workspace, workspace_roots,
                   background_thread_callbacks, wire, chan, rpc, cur, locals, lines,
                   emitted, bgsent, delivered, issued, resp_carried, resp_bound,
                   observed, reg_log, inflight_at_eof, reg_task, connVars, daemonVars>>

\* line 278: self.pending.lock().await.insert(id, tx).
ReqInsertPending(c) ==
    /\ call[c].pc = "pending"
    /\ pending' = pending \cup {call[c].id}
    /\ call' = [call EXCEPT ![c].pc = "context"]
    /\ UNCHANGED <<next_id, request_context, thread_workspace, workspace_ids,
                   workspace_roots, background_thread_callbacks, wire, chan, rpc, cur,
                   locals, lines, emitted, bgsent, delivered, issued, resp_carried,
                   resp_bound, observed, reg_log, inflight_at_eof, reg_task, connVars,
                   daemonVars>>

\* line 279-285: self.request_context.lock().await.insert(id, RequestContext{..});
\* line 286: when the params carry no thread id the next lock taken is stdin's.
ReqInsertContext(c) ==
    /\ call[c].pc = "context"
    /\ request_context' = Put(request_context, call[c].id,
                              [workspace_id |-> call[c].ws, method |-> call[c].method])
    /\ call' = [call EXCEPT ![c].pc = IF call[c].tid # None THEN "bind" ELSE "write"]
    /\ UNCHANGED <<next_id, pending, thread_workspace, workspace_ids, workspace_roots,
                   background_thread_callbacks, wire, chan, rpc, cur, locals, lines,
                   emitted, bgsent, delivered, issued, resp_carried, resp_bound,
                   observed, reg_log, inflight_at_eof, reg_task, connVars, daemonVars>>

\* line 286-291: thread_workspace.insert(thread_id, workspace_id) for the thread
\* id of the params.  The history forgets a binding that this request changes.
ReqBindThread(c) ==
    /\ call[c].pc = "bind"
    /\ thread_workspace' = Put(thread_workspace, call[c].tid, call[c].ws)
    /\ resp_bound' = Rebound(resp_bound, call[c].tid, call[c].ws)
    /\ resp_carried' = Rebound(resp_carried, call[c].tid, call[c].ws)
    /\ call' = [call EXCEPT ![c].pc = "write"]
    /\ UNCHANGED <<next_id, pending, request_context, workspace_ids, workspace_roots,
                   background_thread_callbacks, wire, chan, rpc, cur, locals, lines,
                   emitted, bgsent, delivered, issued, observed, reg_log,
                   inflight_at_eof, reg_task, connVars, daemonVars>>

\* write_message (line 254-262): under the stdin lock, one whole line is
\* appended to what the agent reads.
write_message(w, line) == w \o <<line>>

RequestLine(c) == [kind |-> "request", id |-> call[c].id, method |-> call[c].method]

\* line 292-299: the write of {id, method, params}: it succeeds, or it fails and
\* the cleanup starts.  (The parameters are not used after the write.)
ReqWrite(c) ==
    /\ call[c].pc = "write"
    /\ \E ok \in BOOLEAN :
         /\ wire' = IF ok THEN write_message(wire, RequestLine(c)) ELSE wire
         /\ call' = [call EXCEPT ![c] = [@ EXCEPT
                        !.pc = IF ok THEN "await" ELSE "err_pending",
                        !.ws = None, !.method = None, !.tid = None]]
    /\ UNCHANGED <<next_id, pending, request_context, thread_workspace, workspace_ids,
                   workspace_roots, background_thread_callbacks, chan, rpc, cur, locals,
                   lines, emitted, bgsent, delivered, issued, resp_carried, resp_bound,
                   observed, reg_log, inflight_at_eof, reg_task, connVars, daemonVars>>

\* The ids of the requests the agent has been sent.
WrittenIds == {wire[p].id : p \in DOMAIN wire}

\* pending.remove(&id) of the caller's cleanup: the map it leaves.
remove_pending(p, id) == p \ {id}

\* line 296 and line 304: self.pending.lock().await.remove(&id).
ReqRemovePending(c) ==
    /\ call[c].pc \in {"err_pending", "to_pending"}
    /\ pending' = remove_pending(pending, call[c].id)
    /\ call' = [call EXCEPT ![c].pc = IF call[c].pc = "err_pending"
                                      THEN "err_context" ELSE "to_context"]
    /\ UNCHANGED <<next_id, request_context, thread_workspace, workspace_ids,
                   workspace_roots, background_thread_callbacks, wire, chan, rpc, cur,
                   locals, lines, emitted, bgsent, delivered, issued, resp_carried,
                   resp_bound, observed, reg_log, inflight_at_eof, reg_task, connVars,
                   daemonVars>>

\* (variant) a cleanup that leaves the context entry in the map
remove_context_keeps_entry(rc, id) == rc

\* request_context.remove(&id) of the caller's cleanup: the map it leaves.
remove_context(rc, id) == Del(rc, id)

\* line 297-298 and line 305-309: request_context.remove(&id), then return the
\* write error or "request timed out after 300 seconds".
ReqRemoveContext(c) ==
    /\ call[c].pc \in {"err_context", "to_context"}
    /\ request_context' = remove_context(request_context, call[c].id)
    /\ call' = [call EXCEPT ![c].pc = "done",
                            ![c].ret = IF call[c].pc = "err_context"
                                       THEN "write error" ELSE "timed out"]
    /\ UNCHANGED <<next_id, pending, thread_workspace, workspace_ids, workspace_roots,
                   background_thread_callbacks, wire, chan, rpc, cur, locals, lines,
                   emitted, bgsent, delivered, issued, resp_carried, resp_bound,
                   observed, reg_log, inflight_at_eof, reg_task, connVars, daemonVars>>

\* line 300-302: timeout(REQUEST_TIMEOUT, rx) polls rx first: a value that was
\* sent is returned, a dropped sender gives "request canceled".
ReqAwaitReady(c) ==
    /\ call[c].pc = "await"
    /\ chan[call[c].id].st \in {"sent", "closed"}
    /\ call' = [call EXCEPT ![c].pc = "done",
                            ![c].ret = IF chan[call[c].id].st = "sent"
                                       THEN "value" ELSE "request canceled",
                            ![c].val = chan[call[c].id].val]
    /\ UNCHANGED <<next_id, pending, request_context, thread_workspace, workspace_ids,
                   workspace_roots, background_thread_callbacks, wire, chan, rpc, cur,
                   locals, lines, emitted, bgsent, delivered, issued, resp_carried,
                   resp_bound, observed, reg_log, inflight_at_eof, reg_task, connVars,
                   daemonVars>>

\* line 303: the timer elapsed while the channel was still open; the receiver
\* is dropped with the timeout future.
ReqAwaitTimeout(c) ==
    /\ call[c].pc = "await"
    /\ chan[call[c].id].st = "open"
    /\ chan' = [chan EXCEPT ![call[c].id] = Chan("dropped", NoMsg)]
    /\ call' = [call EXCEPT ![c].pc = "to_pending"]
    /\ UNCHANGED <<next_id, pending, request_context, thread_workspace, workspace_ids,
                   workspace_roots, background_thread_callbacks, wire, rpc, cur, locals,
                   lines, emitted, bgsent, delivered, issued, resp_carried, resp_bound,
                   observed, reg_log, inflight_at_eof, reg_task, connVars, daemonVars>>

\* --------------------------------------------------- stdout reader task
\* The lock acquisitions (`.lock().await`) of one pass of the reader loop, in
\* source order; each is one step of the reader.  What the pass does between
\* two of them, or after the last, belongs to the step before it.
ReaderSteps == <<"ctx", "bind", "list_roots", "list_insert", "route", "archive",
                 "pending", "callbacks", "snapshot">>

\* (Variant: every message with an id counts as a response.)
is_response_by_id(value) == maybe_id(value) # NoId

\* line 598 and line 655: a message with an id and a result or an error.
is_response(value) == maybe_id(value) # NoId /\ has_result_or_error(value)

\* The branches at line 659 and line 703: a message with a method that is not a
\* response is an event for a background subscriber or for the sink.
is_event(value) == ~is_response(value) /\ has_method(value)

\* Whether the pass for `value` takes the lock of `step`, given the locals so
\* far: rws/rmeth are request_workspace/request_method, bg is sent_to_background.
NeedsStep(step, value, rws, rmeth, bg) ==
    LET tid == extract_thread_id(value) IN
    CASE step = "ctx" -> is_response(value)
      [] step = "bind" -> rws # None /\ tid # None
      [] step \in {"list_roots", "list_insert"} ->
            /\ rmeth = "thread/list"
            /\ extract_thread_entries_from_thread_list_result(value) # <<>>
      [] step = "route" -> tid # None
      [] step = "archive" -> method_name(value) = "thread/archived" /\ tid # None
      [] step = "pending" ->
            maybe_id(value) # NoId /\ (has_result_or_error(value) \/ ~has_method(value))
      [] step = "callbacks" -> is_event(value) /\ tid # None
      [] step = "snapshot" ->
            /\ is_event(value)
            /\ ~bg
            /\ should_broadcast_global_workspace_notification(method_name(value), tid, rws)
      [] OTHER -> FALSE

StepIndex(step) == CHOOSE i \in 1..Len(ReaderSteps) : ReaderSteps[i] = step

NextStepFrom(i, value, rws, rmeth, bg) ==
    LET later == {j \in (i + 1)..Len(ReaderSteps) :
                    NeedsStep(ReaderSteps[j], value, rws, rmeth, bg)}
    IN IF later = {} THEN "idle"
       ELSE ReaderSteps[CHOOSE j \in later : \A k \in later : j <= k]

\* (variant) routing that does not look the thread up in thread_workspace
route_workspace_without_lookup(tid, tw, rws) ==
    IF rws # None THEN rws ELSE owner_workspace_id

\* line 633-646: routed_workspace_id.
route_workspace(tid, tw, rws) ==
    IF tid # None
    THEN IF tid \in DOMAIN tw THEN tw[tid]
         ELSE IF rws # None THEN rws ELSE owner_workspace_id
    ELSE IF rws # None THEN rws ELSE owner_workspace_id

Event(w, m) == [workspace_id |-> w, message |-> m]

\* line 692-698 and line 736-742: the one event on the routed workspace, which
\* needs no lock.  For a message without thread id the routed workspace is
\* computed without the thread_workspace lock (line 642-645).
routed_event(value, l) ==
    Event(IF extract_thread_id(value) # None THEN l.routed_workspace_id
          ELSE route_workspace(None, EmptyMap, l.request_workspace),
          value)

\* What follows step number i of the pass for `value`: the next lock to take
\* (pc) or the end of the pass, and the events emitted on the way.
AfterStep(i, value, l, bg) ==
    LET nextpc == NextStepFrom(i, value, l.request_workspace, l.request_method, bg) IN
    [pc |-> nextpc,
     emitted |-> IF nextpc = "idle" /\ is_event(value) /\ ~bg
                 THEN <<routed_event(value, l)>> ELSE <<>>,
     locals |-> IF nextpc = "idle" THEN NoLocals ELSE l]

After(step, l, bg) == AfterStep(StepIndex(step), cur, l, bg)

\* The synthetic codex/parseError message of line 577-584.
ParseErrorEvent == Event(owner_workspace_id,
                         Msg(NoId, "codex/parseError", EmptyObj, AbsentObj, FALSE, <<>>))

\* line 569-596: read the next line; a blank line is skipped; a line that does
\* not parse gives one codex/parseError event on the owner workspace and the
\* loop continues.
ReadLine(msgs, maxl) ==
    /\ rpc = "idle"
    /\ lines < maxl
    /\ lines' = lines + 1
    /\ \E m \in msgs :
         /\ cur' = m
         /\ observed' = [NoExpect EXCEPT !.late =
                            \E c \in Calls : /\ call[c].pc = "done"
                                              /\ call[c].ret = "timed out"
                                              /\ call[c].id = maybe_id(m)]
         /\ resp_carried' =
               IF m.ok /\ is_response(m) /\ extract_thread_id(m) # None
                       /\ maybe_id(m) \in WrittenIds
               THEN Put(resp_carried, extract_thread_id(m), issued[maybe_id(m)])
               ELSE resp_carried
         /\ IF m.ok
            THEN LET n == AfterStep(0, m, NoLocals, FALSE) IN
                 /\ emitted' = n.emitted
                 /\ rpc' = n.pc
            ELSE /\ emitted' = IF trim_is_empty(m) THEN <<>> ELSE <<ParseErrorEvent>>
                 /\ rpc' = "idle"
    /\ locals' = NoLocals
    /\ bgsent' = <<>>
    /\ UNCHANGED <<next_id, pending, request_context, thread_workspace, workspace_ids,
                   workspace_roots, background_thread_callbacks, wire, chan, call,
                   delivered, issued, resp_bound, reg_log, inflight_at_eof, reg_task,
                   connVars, daemonVars>>

\* line 598-605: request_context.remove(&id) of a message with id and
\* result/error; the context, when there, gives request_workspace/request_method.
ReaderPopContext ==
    /\ rpc = "ctx"
    /\ LET id == maybe_id(cur)
           found == id \in DOMAIN request_context
           l == [locals EXCEPT
                   !.request_workspace =
                       IF found THEN request_context[id].workspace_id ELSE None,
                   !.request_method =
                       IF found THEN request_context[id].method ELSE None]
           n == After("ctx", l, FALSE)
       IN /\ request_context' = Del(request_context, id)
          /\ locals' = n.locals
          /\ emitted' = n.emitted
          /\ rpc' = n.pc
    /\ UNCHANGED <<next_id, pending, thread_workspace, workspace_ids, workspace_roots,
                   background_thread_callbacks, wire, chan, call, cur, lines, bgsent,
                   delivered, issued, resp_carried, resp_bound, observed, reg_log,
                   inflight_at_eof, reg_task, connVars, daemonVars>>

\* line 607-615: a response with a known context and a thread id binds the
\* thread to the requesting workspace.
ReaderBindThread ==
    /\ rpc = "bind"
    /\ LET tid == extract_thread_id(cur)
           n == After("bind", locals, FALSE)
       IN /\ thread_workspace' = Put(thread_workspace, tid, locals.request_workspace)
          /\ resp_bound' = Put(resp_bound, tid, locals.request_workspace)
          /\ locals' = n.locals
          /\ emitted' = n.emitted
          /\ rpc' = n.pc
    /\ UNCHANGED <<next_id, pending, request_context, workspace_ids, workspace_roots,
                   background_thread_callbacks, wire, chan, call, cur, lines, bgsent,
                   delivered, issued, resp_carried, observed, reg_log, inflight_at_eof,
                   reg_task, connVars, daemonVars>>

\* line 619: workspace_roots.lock().await.clone().
ReaderListRoots ==
    /\ rpc = "list_roots"
    /\ locals' = [locals EXCEPT !.workspace_roots = workspace_roots]
    /\ rpc' = "list_insert"
    /\ UNCHANGED <<next_id, pending, request_context, thread_workspace, workspace_ids,
                   workspace_roots, background_thread_callbacks, wire, chan, call, cur,
                   lines, emitted, bgsent, delivered, issued, resp_carried, resp_bound,
                   observed, reg_log, inflight_at_eof, reg_task, connVars, daemonVars>>

\* line 621-629: the maps thread_workspace can be after the loop over `entries`
\* (a set: resolve_workspace_for_cwd has several possible results on a tie).
RECURSIVE apply_thread_entries(_, _, _)
apply_thread_entries(tw, entries, roots) ==
    IF entries = <<>> THEN {tw}
    ELSE
      LET entry == Head(entries)
          mapped == IF entry.has_cwd
                    THEN resolve_workspace_for_cwd(entry.cwd, roots)
                    ELSE {None}
      IN UNION {apply_thread_entries(
                    IF w = None THEN tw ELSE Put(tw, entry.thread_id, w),
                    Tail(entries), roots) : w \in mapped}

\* line 616-631: the thread/list result walk under the thread_workspace lock.
\* The history keeps the bindings the walk did not change.
ReaderListInsert ==
    /\ rpc = "list_insert"
    /\ \E tw \in apply_thread_entries(thread_workspace,
                   extract_thread_entries_from_thread_list_result(cur),
                   locals.workspace_roots) :
         /\ thread_workspace' = tw
         /\ resp_bound' = Surviving(resp_bound, tw)
         /\ resp_carried' = Surviving(resp_carried, tw)
    /\ LET n == After("list_insert", [locals EXCEPT !.workspace_roots = EmptyMap], FALSE)
       IN /\ locals' = n.locals
          /\ emitted' = n.emitted
          /\ rpc' = n.pc
    /\ UNCHANGED <<next_id, pending, request_context, workspace_ids, workspace_roots,
                   background_thread_callbacks, wire, chan, call, cur, lines, bgsent,
                   delivered, issued, observed, reg_log, inflight_at_eof, reg_task,
                   connVars, daemonVars>>

\* line 633-641: the lookup of the thread id in thread_workspace.  `observed`
\* notes the binding a response made for the thread, if one stands.
ReaderRoute ==
    /\ rpc = "route"
    /\ LET tid == extract_thread_id(cur)
           l == [locals EXCEPT !.routed_workspace_id =
                    route_workspace(tid, thread_workspace, locals.request_workspace)]
           n == After("route", l, FALSE)
       IN /\ locals' = n.locals
          /\ emitted' = n.emitted
          /\ rpc' = n.pc
          /\ observed' = [observed EXCEPT !.carried = Get(resp_carried, tid),
                                          !.bound = Get(resp_bound, tid),
                                          !.binding = Get(thread_workspace, tid)]
    /\ UNCHANGED <<next_id, pending, request_context, thread_workspace, workspace_ids,
                   workspace_roots, background_thread_callbacks, wire, chan, call, cur,
                   lines, bgsent, delivered, issued, resp_carried, resp_bound, reg_log,
                   inflight_at_eof, reg_task, connVars, daemonVars>>

\* line 648-652: thread/archived removes the binding, after routing.
ReaderArchive ==
    /\ rpc = "archive"
    /\ LET tid == extract_thread_id(cur)
           n == After("archive", locals, FALSE)
       IN /\ thread_workspace' = Del(thread_workspace, tid)
          /\ resp_bound' = Del(resp_bound, tid)
          /\ resp_carried' = Del(resp_carried, tid)
          /\ locals' = n.locals
          /\ emitted' = n.emitted
          /\ rpc' = n.pc
    /\ UNCHANGED <<next_id, pending, request_context, workspace_ids, workspace_roots,
                   background_thread_callbacks, wire, chan, call, cur, lines, bgsent,
                   delivered, issued, observed, reg_log, inflight_at_eof, reg_task,
                   connVars, daemonVars>>

\* (variant) the reader looks the slot up and leaves it in the map
take_pending_keeps_slot(p, id) == p

\* pending.remove(&id) of the reader: the map it leaves.
take_pending(p, id) == p \ {id}

\* A lookup that hands out the oldest slot, whatever the id.
pending_slot_oldest(p, id) ==
    IF p = {} THEN NoId ELSE CHOOSE i \in p : \A j \in p : i <= j

\* pending.remove(&id) of the reader: the slot whose sender it returns, NoId for
\* Option::None.
pending_slot(p, id) == IF id \in p THEN id ELSE NoId

\* tx.send(value) on the channel of a slot the reader found.
send_value(ch, value) == IF ch.st = "open" THEN Chan("sent", value) ELSE ch

\* line 654-658 and line 700-702: pending.remove(&id) and tx.send(value), for a
\* message with id and result/error and for a message with an id only.
ReaderDeliver ==
    /\ rpc = "pending"
    /\ LET slot == pending_slot(pending, maybe_id(cur)) IN
       IF slot # NoId
       THEN /\ pending' = take_pending(pending, slot)
            /\ chan' = [chan EXCEPT ![slot] = send_value(@, cur)]
            /\ delivered' = [delivered EXCEPT ![slot] = @ + 1]
       ELSE UNCHANGED <<pending, chan, delivered>>
    /\ locals' = NoLocals
    /\ rpc' = "idle"
    /\ UNCHANGED <<next_id, request_context, thread_workspace, workspace_ids,
                   workspace_roots, background_thread_callbacks, wire, call, cur, lines,
                   emitted, bgsent, issued, resp_carried, resp_bound, observed, reg_log,
                   inflight_at_eof, reg_task, connVars, daemonVars>>

\* callbacks.get(tid): the subscriber the message goes to, or None.
background_callback(callbacks, tid) == Get(callbacks, tid)

\* line 661-668 and line 705-712: a message with a method whose thread id has a
\* registered callback is sent to that subscriber (sent_to_background = true);
\* line 670, 692-698: else it is emitted on the routed workspace.
ReaderCallbacks ==
    /\ rpc = "callbacks"
    /\ LET sub == background_callback(background_thread_callbacks, extract_thread_id(cur))
           n == After("callbacks", locals, sub # None)
       IN /\ bgsent' = IF sub # None THEN <<[subscriber |-> sub, message |-> cur]>>
                       ELSE <<>>
          /\ locals' = n.locals
          /\ emitted' = n.emitted
          /\ rpc' = n.pc
    /\ UNCHANGED <<next_id, pending, request_context, thread_workspace, workspace_ids,
                   workspace_roots, background_thread_callbacks, wire, chan, call, cur,
                   lines, delivered, issued, resp_carried, resp_bound, observed, reg_log,
                   inflight_at_eof, reg_task, connVars, daemonVars>>

\* The orders in which a HashSet can be iterated.
Orderings(S) == {q \in [1..Cardinality(S) -> S] : {q[i] : i \in 1..Cardinality(S)} = S}

\* line 676-691 and line 720-735: workspace_ids_snapshot() and the fan-out of a
\* global notification: one event per attached workspace id, or one event on
\* the routed workspace when none is attached.
ReaderSnapshot ==
    /\ rpc = "snapshot"
    /\ IF workspace_ids = {}
       THEN emitted' = <<routed_event(cur, locals)>>
       ELSE \E order \in Orderings(workspace_ids) :
               emitted' = [i \in 1..Len(order) |-> Event(order[i], cur)]
    /\ observed' = [observed EXCEPT !.snapshot_taken = TRUE, !.attached = workspace_ids]
    /\ locals' = NoLocals
    /\ rpc' = "idle"
    /\ UNCHANGED <<next_id, pending, request_context, thread_workspace, workspace_ids,
                   workspace_roots, background_thread_callbacks, wire, chan, call, cur,
                   lines, bgsent, delivered, issued, resp_carried, resp_bound, reg_log,
                   inflight_at_eof, reg_task, connVars, daemonVars>>

\* A call that has its id and has neither returned nor been resolved: no value
\* was sent to it, its timer has not fired and its write has not failed.
InFlight(c) ==
    /\ call[c].pc \in {"register", "pending", "context", "bind", "write", "await"}
    /\ chan[call[c].id].st = "open"

\* line 570: lines.next_line() returns None (EOF) or an error: the loop ends.
ReaderEOF ==
    /\ rpc = "idle"
    /\ rpc' = "sweep_pending"
    /\ inflight_at_eof' = {call[c].id : c \in {d \in Calls : InFlight(d)}}
    /\ UNCHANGED <<next_id, pending, request_context, thread_workspace, workspace_ids,
                   workspace_roots, background_thread_callbacks, wire, chan, call, cur,
                   locals, lines, emitted, bgsent, delivered, issued, resp_carried,
                   resp_bound, observed, reg_log, reg_task, connVars, daemonVars>>

\* line 748: pending.lock().await.clear(): every sender in the map is dropped.
ReaderSweepPending ==
    /\ rpc = "sweep_pending"
    /\ chan' = [i \in DOMAIN chan |->
                  IF i \in pending /\ chan[i].st = "open" THEN Chan("closed", NoMsg)
                  ELSE chan[i]]
    /\ pending' = {}
    /\ rpc' = "sweep_context"
    /\ UNCHANGED <<next_id, request_context, thread_workspace, workspace_ids,
                   workspace_roots, background_thread_callbacks, wire, call, cur, locals,
                   lines, emitted, bgsent, delivered, issued, resp_carried, resp_bound,
                   observed, reg_log, inflight_at_eof, reg_task, connVars, daemonVars>>

\* line 749: request_context.lock().await.clear(); the task ends.
ReaderSweepContext ==
    /\ rpc = "sweep_context"
    /\ request_context' = EmptyMap
    /\ rpc' = "ended"
    /\ UNCHANGED <<next_id, pending, thread_workspace, workspace_ids, workspace_roots,
                   background_thread_callbacks, wire, chan, call, cur, locals, lines,
                   emitted, bgsent, delivered, issued, resp_carried, resp_bound,
                   observed, reg_log, inflight_at_eof, reg_task, connVars, daemonVars>>

\* --------------------------------------------- registration operations
\* An entry of reg_log.
RegOp(op, key, val) == [op |-> op, key |-> key, val |-> val]

RegisterPaths == {PathSubTrailing, PathRoot}

\* register_workspace_with_path, line 230-233: workspace_ids.insert; the root is
\* stored next, when the normalized path is not empty.
RegisterWorkspaceWithPath(w, path) ==
    /\ reg_task.pc = "idle"
    /\ Len(reg_log) < MaxRegs
    /\ reg_log' = Append(reg_log, RegOp("register_workspace", w, None))
    /\ workspace_ids' = workspace_ids \cup {w}
    /\ LET normalized == normalize_root_path(path) IN
       reg_task' = IF Len(normalized) > 0
                   THEN [pc |-> "roots_insert", w |-> w, root |-> normalized]
                   ELSE RegIdle
    /\ UNCHANGED <<next_id, pending, request_context, thread_workspace, workspace_roots,
                   background_thread_callbacks, wire, chan, call, rpc, cur, locals,
                   lines, emitted, bgsent, delivered, issued, resp_carried, resp_bound,
                   observed, inflight_at_eof, connVars, daemonVars>>

\* unregister_workspace, line 246: workspace_ids.remove.
UnregisterWorkspace(w) ==
    /\ reg_task.pc = "idle"
    /\ Len(reg_log) < MaxRegs
    /\ reg_log' = Append(reg_log, RegOp("unregister_workspace", w, None))
    /\ workspace_ids' = workspace_ids \ {w}
    /\ reg_task' = [pc |-> "roots_remove", w |-> w, root |-> <<>>]
    /\ UNCHANGED <<next_id, pending, request_context, thread_workspace, workspace_roots,
                   background_thread_callbacks, wire, chan, call, rpc, cur, locals,
                   lines, emitted, bgsent, delivered, issued, resp_carried, resp_bound,
                   observed, inflight_at_eof, connVars, daemonVars>>

\* line 237-240 (workspace_roots.insert) and line 247 (workspace_roots.remove).
RegisterRoots ==
    /\ reg_task.pc \in {"roots_insert", "roots_remove"}
    /\ workspace_roots' = IF reg_task.pc = "roots_insert"
                          THEN Put(workspace_roots, reg_task.w, reg_task.root)
                          ELSE Del(workspace_roots, reg_task.w)
    /\ reg_task' = RegIdle
    /\ UNCHANGED <<next_id, pending, request_context, thread_workspace, workspace_ids,
                   background_thread_callbacks, wire, chan, call, rpc, cur, locals,
                   lines, emitted, bgsent, delivered, issued, resp_carried, resp_bound,
                   observed, reg_log, inflight_at_eof, connVars, daemonVars>>

\* (variant) a registration that leaves an existing one for the thread in place
insert_callback_keeps_first(callbacks, t, sub) ==
    IF t \in DOMAIN callbacks THEN callbacks ELSE Put(callbacks, t, sub)

\* callbacks.insert(thread_id, tx): a registration for a thread id that has one
\* replaces it.
insert_callback(callbacks, t, sub) == Put(callbacks, t, sub)

RegisterCallback(t, sub) ==
    /\ Len(reg_log) < MaxRegs
    /\ reg_log' = Append(reg_log, RegOp("callback_insert", t, sub))
    /\ background_thread_callbacks' = insert_callback(background_thread_callbacks, t, sub)
    /\ UNCHANGED <<next_id, pending, request_context, thread_workspace, workspace_ids,
                   workspace_roots, wire, chan, call, rpc, cur, locals, lines, emitted,
                   bgsent, delivered, issued, resp_carried, resp_bound, observed,
                   inflight_at_eof, reg_task, connVars, daemonVars>>

\* callbacks.remove(&thread_id).
UnregisterCallback(t) ==
    /\ Len(reg_log) < MaxRegs
    /\ t \in DOMAIN background_thread_callbacks
    /\ reg_log' = Append(reg_log, RegOp("callback_remove", t, None))
    /\ background_thread_callbacks' = Del(background_thread_callbacks, t)
    /\ UNCHANGED <<next_id, pending, request_context, thread_workspace, workspace_ids,
                   workspace_roots, wire, chan, call, rpc, cur, locals, lines, emitted,
                   bgsent, delivered, issued, resp_carried, resp_bound, observed,
                   inflight_at_eof, reg_task, connVars, daemonVars>>

\* ------------------------------------------- control-plane connection
\* config.token: None with --insecure-no-auth, else a non-empty string
\* (parse_args rejects an empty --token).
TokenConfigs == {None, "secret"}

\* The "params" of a control-plane line: a JSON string, an object whose "token"
\* is a string, is not a string or is missing, or anything else (null).
StrParams(v) == [kind |-> "string", token |-> v]
ObjParams(v) == [kind |-> "object", token |-> v]
NullParams == [kind |-> "null", token |-> Absent]

\* A line of the connection: ok is FALSE for a line that is not JSON; id is
\* message.id as u64 or NoId; method is "" when missing or not a string.
Line(i, m, p) == [ok |-> TRUE, id |-> i, method |-> m, params |-> p]
GarbageLine == [ok |-> FALSE, id |-> NoId, method |-> "", params |-> NullParams]

ClientLines ==
    {GarbageLine,
     Line(1, "auth", StrParams("secret")),
     Line(2, "auth", ObjParams("secret")),
     Line(1, "auth", StrParams("wrong")),
     Line(2, "auth", ObjParams(NonString)),
     Line(1, "auth", NullParams),
     Line(1, "auth", StrParams("")),
     Line(NoId, "auth", StrParams("secret")),
     Line(1, "ping", NullParams),
     Line(2, "ping", NullParams),
     Line(NoId, "ping", NullParams),
     Line(2, "", NullParams)}

\* parse_auth_token(...).unwrap_or_default()
parse_auth_token(params) ==
    CASE params.kind = "string" -> params.token
      [] params.kind = "object" ->
            IF params.token \in {Absent, NonString} THEN None ELSE params.token
      [] OTHER -> None

unwrap_or_default(opt) == IF opt = None THEN "" ELSE opt

\* build_error_response / build_result_response: None (nothing to send) for a
\* message without id.  `line` is the index of the request line answered.
ClientResponse(id, field, body, line) == [id |-> id, field |-> field, body |-> body, line |-> line]

build_error_response(id, message, line) ==
    IF id = NoId THEN <<>> ELSE <<ClientResponse(id, "error", message, line)>>

build_result_response(id, result, line) ==
    IF id = NoId THEN <<>> ELSE <<ClientResponse(id, "result", result, line)>>

\* (variant) a comparison that lets a request without token through
token_matches_or_missing(expected, provided) == expected = provided \/ provided = ""

\* line 2662: whether the provided token is accepted.
token_matches(expected, provided) == expected = provided

ConnInitWith(t) ==
    /\ token = t
    /\ authenticated = (t = None)
    /\ forwarders = IF t = None THEN 1 ELSE 0
    /\ out_tx = <<>>
    /\ handled = <<>>
    /\ conn_in = <<>>
    /\ conn_pc = "read"
    /\ written = 0
    /\ writer = "running"

\* line 2633-2679: read one line; skip what is not JSON; the auth gate of an
\* unauthenticated connection; else start the handler of the request.
ClientLineRead ==
    /\ conn_pc = "read"
    /\ Len(conn_in) < MaxConnLines
    /\ \E l \in ClientLines :
         LET k == Len(conn_in) + 1 IN
         /\ conn_in' = Append(conn_in, l)
         /\ IF ~l.ok
            THEN UNCHANGED <<authenticated, out_tx, handled, conn_pc, forwarders>>
            ELSE IF ~authenticated
            THEN IF l.method # "auth"
                 THEN /\ out_tx' = out_tx \o build_error_response(l.id, "unauthorized", k)
                      /\ UNCHANGED <<authenticated, handled, conn_pc, forwarders>>
                 ELSE IF ~token_matches(unwrap_or_default(token),
                                        unwrap_or_default(parse_auth_token(l.params)))
                 THEN /\ out_tx' = out_tx \o build_error_response(l.id, "invalid token", k)
                      /\ UNCHANGED <<authenticated, handled, conn_pc, forwarders>>
                 ELSE /\ authenticated' = TRUE
                      /\ out_tx' = out_tx \o build_result_response(l.id, "ok:true", k)
                      /\ forwarders' = forwarders + 1
                      /\ UNCHANGED <<handled, conn_pc>>
            ELSE /\ handled' = Append(handled, k)
                 /\ conn_pc' = "handler"
                 /\ UNCHANGED <<authenticated, out_tx, forwarders>>
    /\ UNCHANGED <<token, written, writer, sessionVars, daemonVars>>

\* line 2682-2689: handle_rpc_request returns Ok(result) or Err(message); the
\* response goes to the connection's write queue and the loop reads on.
ClientHandlerReturn ==
    /\ conn_pc = "handler"
    /\ LET k == Len(conn_in)
           l == conn_in[k]
       IN \E ok \in BOOLEAN :
            out_tx' = out_tx \o (IF ok THEN build_result_response(l.id, "handler result", k)
                                 ELSE build_error_response(l.id, "handler error", k))
    /\ conn_pc' = "read"
    /\ UNCHANGED <<token, authenticated, handled, conn_in, forwarders, written, writer,
                   sessionVars, daemonVars>>

\* line 2611-2620: the write task takes the next message of out_tx and writes
\* it and a newline to the socket; a write error ends the task.
WriteTaskWrite ==
    /\ writer = "running"
    /\ written < Len(out_tx)
    /\ \E ok \in BOOLEAN :
         IF ok THEN written' = written + 1 /\ writer' = writer
         ELSE written' = written /\ writer' = "broken"
    /\ UNCHANGED <<token, authenticated, out_tx, handled, conn_in, conn_pc, forwarders,
                   sessionVars, daemonVars>>

\* line 2633 and 2692-2696: lines.next_line() gives None or an error (the client
\* closed its sending side): the loop ends and the write task is aborted,
\* with whatever out_tx still holds.
ClientEOF ==
    /\ conn_pc = "read"
    /\ conn_pc' = "closed"
    /\ writer' = IF writer = "running" THEN "aborted" ELSE writer
    /\ UNCHANGED <<token, authenticated, out_tx, handled, conn_in, forwarders, written,
                   sessionVars, daemonVars>>

\* ---------------------------------------------- broadcast of daemon events
\* main: broadcast::channel::<DaemonEvent>(2048).  The channel retains the last
\* BroadcastCapacity events (2048 in the program, a small number here so that a
\* receiver can fall behind).
BroadcastCapacity == 1
MaxBusEvents == 3
MaxBusRequests == 2
BConns == {1, 2}

\* DaemonEvent::AppServer(event): n is its place in the emission order, method
\* the method of its message, ser whether serde_json::to_string accepts it.
DaemonEvent(n, method, ser) == [n |-> n, method |-> method, ser |-> ser]

\* The messages of a connection's out_tx: an event notification, or the
\* response of a handler (n: the codex/connected event its handler emitted, 0
\* when it emitted none).
EventNotification(e) == [type |-> "event", n |-> e.n, body |-> e.method]
RpcResponse(field, n) == [type |-> "response", n |-> n, body |-> field]

\* build_event_notification: None when the payload does not serialize.
build_event_notification(e) == IF e.ser THEN <<EventNotification(e)>> ELSE <<>>

\* DaemonEventSink::emit_app_server_event: `let _ = self.tx.send(..)`.
emit_app_server_event(b, method, ser) == Append(b, DaemonEvent(Len(b) + 1, method, ser))

\* The number of events of a channel that has seen `len` of them which are no
\* longer retained.
overwritten(len) == IF len > BroadcastCapacity THEN len - BroadcastCapacity ELSE 0

\* (variant) a receiver that, having lagged, goes on at the newest event
recv_from_newest(pos, len) ==
    IF pos < overwritten(len) THEN [kind |-> "lagged", pos |-> len]
    ELSE [kind |-> "ok", pos |-> pos + 1]

\* rx.recv() of a receiver that is past `pos` events, when there is one to
\* receive: Err(Lagged) moves the receiver to the oldest retained event.
recv(pos, len) ==
    IF pos < overwritten(len) THEN [kind |-> "lagged", pos |-> overwritten(len)]
    ELSE [kind |-> "ok", pos |-> pos + 1]

BusInit ==
    /\ bus = <<>>
    /\ subs = [c \in BConns |-> [st |-> "none", pos |-> 0, from |-> 0, tasks |-> 0]]
    /\ outq = [c \in BConns |-> <<>>]
    /\ sock = [c \in BConns |-> [st |-> "running", written |-> 0]]
    /\ hpc = [c \in BConns |-> [pc |-> "auth", id |-> NoId, ev |-> 0, reqs |-> 0]]
    /\ lost = [c \in BConns |-> {}]

\* (Variant: a new receiver starts at the oldest event of the channel.)
subscribe_from_start(b) == 0

\* events.subscribe(): the new receiver gets the events sent from now on.
subscribe(b) == Len(b)

\* line 2628-2630 and 2674-2676: events.subscribe() and the spawn of
\* forward_events.  `from` is the number of events emitted before, `tasks` the
\* number of forwarders the connection has spawned.
spawn_forwarder(sub, b) ==
    [st |-> "running", pos |-> subscribe(b), from |-> Len(b), tasks |-> sub.tasks + 1]

\* handle_client 2627-2631 and 2669-2676: the connection is authenticated (at
\* once without token, else by its auth request) and subscribes.
Subscribe(c) ==
    /\ hpc[c].pc = "auth"
    /\ hpc' = [hpc EXCEPT ![c].pc = "read"]
    /\ subs' = [subs EXCEPT ![c] = spawn_forwarder(subs[c], bus)]
    /\ UNCHANGED <<bus, outq, sock, lost, busRest>>

\* A session's reader or stderr task gives the sink an event.
EmitAgentEvent ==
    /\ Len(bus) < MaxBusEvents
    /\ \E ser \in BOOLEAN : bus' = emit_app_server_event(bus, "agent", ser)
    /\ UNCHANGED <<subs, outq, sock, hpc, lost, busRest>>

\* forward_events, one turn of its loop.
ForwardEvents(c) ==
    /\ subs[c].st = "running"
    /\ subs[c].pos < Len(bus)
    /\ LET r == recv(subs[c].pos, Len(bus)) IN
       IF r.kind = "lagged"
       THEN /\ subs' = [subs EXCEPT ![c].pos = r.pos]
            /\ lost' = [lost EXCEPT ![c] = @ \cup ((subs[c].pos + 1) .. r.pos)]
            /\ UNCHANGED outq
       ELSE LET payload == build_event_notification(bus[r.pos]) IN
            /\ UNCHANGED lost
            /\ IF payload = <<>>
               THEN subs' = [subs EXCEPT ![c].pos = r.pos] /\ UNCHANGED outq
               ELSE IF sock[c].st # "running"
               THEN subs' = [subs EXCEPT ![c].pos = r.pos, ![c].st = "ended"] /\ UNCHANGED outq
               ELSE /\ subs' = [subs EXCEPT ![c].pos = r.pos]
                    /\ outq' = [outq EXCEPT ![c] = @ \o payload]
    /\ UNCHANGED <<bus, sock, hpc, busRest>>

\* handle_client 2613-2622: the write task of the connection.
SocketWrite(c) ==
    /\ sock[c].st = "running"
    /\ sock[c].written < Len(outq[c])
    /\ \E ok \in BOOLEAN :
         sock' = [sock EXCEPT ![c] = IF ok THEN [@ EXCEPT !.written = @ + 1]
                                     ELSE [@ EXCEPT !.st = "broken"]]
    /\ UNCHANGED <<bus, subs, outq, hpc, lost, busRest>>

\* handle_client 2633-2682: an authenticated connection reads an add_workspace
\* request (with or without id) and awaits its handler.
AddWorkspaceStart(c) ==
    /\ hpc[c].pc = "read"
    /\ hpc[c].reqs < MaxBusRequests
    /\ \E i \in {1, NoId} :
         hpc' = [hpc EXCEPT ![c] = [pc |-> "handler", id |-> i, ev |-> 0, reqs |-> @.reqs + 1]]
    /\ UNCHANGED <<bus, subs, outq, sock, lost, busRest>>

\* add_workspace 215-223 with spawn_workspace_session 771-801: the session is
\* up and codex/connected is given to the sink.
AddWorkspaceConnected(c) ==
    /\ hpc[c].pc = "handler"
    /\ Len(bus) < MaxBusEvents
    /\ bus' = emit_app_server_event(bus, "codex/connected", TRUE)
    /\ hpc' = [hpc EXCEPT ![c].pc = "connected", ![c].ev = Len(bus) + 1]
    /\ UNCHANGED <<subs, outq, sock, lost, busRest>>

\* build_result_response / build_error_response of a handler's outcome.
handler_response(id, field, ev) == IF id = NoId THEN <<>> ELSE <<RpcResponse(field, ev)>>

\* add_workspace 185-187, 223: the path is no folder or the session does not
\* come up; handle_client 2683-2689 queues the error.
AddWorkspaceFailed(c) ==
    /\ hpc[c].pc = "handler"
    /\ outq' = [outq EXCEPT ![c] = @ \o handler_response(hpc[c].id, "error", 0)]
    /\ hpc' = [hpc EXCEPT ![c].pc = "read"]
    /\ UNCHANGED <<bus, subs, sock, lost, busRest>>

\* add_workspace 225-245 and handle_client 2683-2689: the record is stored
\* (write_workspaces may fail) and the response is queued.
AddWorkspaceRespond(c) ==
    /\ hpc[c].pc = "connected"
    /\ \E ok \in BOOLEAN :
         outq' = [outq EXCEPT ![c] = @ \o handler_response(hpc[c].id,
                                            IF ok THEN "result" ELSE "error", hpc[c].ev)]
    /\ hpc' = [hpc EXCEPT ![c].pc = "read"]
    /\ UNCHANGED <<bus, subs, sock, lost, busRest>>

\* handle_client 2633, 2692-2696: the client closes; the forwarder and the write
\* task are aborted.
CloseConnection(c) ==
    /\ hpc[c].pc \in {"auth", "read"}
    /\ hpc' = [hpc EXCEPT ![c].pc = "closed"]
    /\ subs' = [subs EXCEPT ![c].st = IF @ = "running" THEN "aborted" ELSE @]
    /\ sock' = [sock EXCEPT ![c].st = IF @ = "running" THEN "aborted" ELSE @]
    /\ UNCHANGED <<bus, outq, lost, busRest>>

\* The answers of the auth gate in a connection's out_tx; nothing for a line
\* without id.
AuthOk == [type |-> "response", n |-> 0, body |-> "auth ok:true"]
gate_response(id, body) ==
    IF id = NoId THEN <<>> ELSE <<[type |-> "response", n |-> 0, body |-> body]>>

\* handle_client 2625-2631: without a token the connection is authenticated
\* from the start and subscribes before it reads a line.
AcceptAuthenticated(c) ==
    /\ token = None
    /\ Subscribe(c)

\* handle_client 2633-2679 for a connection that is not authenticated: a line
\* that is not JSON is skipped, a method other than auth and a wrong token
\* are answered with an error, the right token with {ok:true}, after which
\* the connection subscribes.
AuthLine(c) ==
    /\ token # None
    /\ hpc[c].pc = "auth"
    /\ hpc[c].reqs < MaxBusRequests
    /\ \E l \in ClientLines :
         IF ~l.ok
         THEN /\ hpc' = [hpc EXCEPT ![c].reqs = @ + 1]
              /\ UNCHANGED <<subs, outq>>
         ELSE IF l.method # "auth"
         THEN /\ outq' = [outq EXCEPT ![c] = @ \o gate_response(l.id, "unauthorized")]
              /\ hpc' = [hpc EXCEPT ![c].reqs = @ + 1]
              /\ UNCHANGED subs
         ELSE IF ~token_matches(unwrap_or_default(token),
                                unwrap_or_default(parse_auth_token(l.params)))
         THEN /\ outq' = [outq EXCEPT ![c] = @ \o gate_response(l.id, "invalid token")]
              /\ hpc' = [hpc EXCEPT ![c].reqs = @ + 1]
              /\ UNCHANGED subs
         ELSE /\ outq' = [outq EXCEPT ![c] = @ \o gate_response(l.id, AuthOk.body)]
              /\ subs' = [subs EXCEPT ![c] = spawn_forwarder(subs[c], bus)]
              /\ hpc' = [hpc EXCEPT ![c].pc = "read", ![c].reqs = @ + 1]
    /\ UNCHANGED <<bus, sock, lost, busRest>>

\* handle_client 2681-2689 for a line of an authenticated connection whose
\* handler returns without awaiting: ping (handle_rpc_request 2320) gives a
\* result, a method handle_rpc_request does not know ("auth" among them) an
\* error.  The response is queued, and nothing subscribes.
ImmediateRequestLine(c) ==
    /\ hpc[c].pc = "read"
    /\ hpc[c].reqs < MaxBusRequests
    /\ \E l \in ClientLines :
         /\ l.ok
         /\ outq' = [outq EXCEPT ![c] = @ \o handler_response(l.id,
                         IF l.method = "ping" THEN "result" ELSE "error", 0)]
    /\ hpc' = [hpc EXCEPT ![c].reqs = @ + 1]
    /\ UNCHANGED <<bus, subs, sock, lost, busRest>>

\* ------------------------------------------- spawn_workspace_session
\* line 771-801, after the child and its reader task exist: the initialize
\* request (caller task 1 of the session) under a timeout of 15 s, the
\* initialized notification and codex/connected.
MaxHandshakeLines == 2

InitializeReqs == {OutReq(owner_workspace_id, "initialize", None)}

\* What the agent can send meanwhile: a result or an error for request 1.
HandshakeTraffic == {Response(1, EmptyObj, <<>>), ErrorResponse(1)}

HandshakeInit ==
    hs = [pc |-> "initialize", result |-> None, child |-> "running", log |-> <<>>]

\* line 777-788: `init_response?` goes on for Ok(value) of send_request.
init_response_ok(ret) == ret = "value"

\* line 776-785: the 15 s elapse before send_request has returned (a value that
\* is ready is taken first): the future is dropped with its receiver, the child
\* process tree is killed and the error returned.
HandshakeExpire ==
    /\ hs.pc = "initialize"
    /\ call[1].pc \notin {"start", "done"}
    /\ ~(call[1].pc = "await" /\ chan[call[1].id].st \in {"sent", "closed"})
    /\ chan' = [chan EXCEPT ![call[1].id] = IF @.st = "open" THEN Chan("dropped", NoMsg) ELSE @]
    /\ call' = [call EXCEPT ![1].pc = "done", ![1].ret = "elapsed"]
    /\ hs' = [hs EXCEPT !.pc = "done", !.result = "error", !.child = "killed",
                        !.log = Append(@, "killed")]
    /\ UNCHANGED <<next_id, pending, request_context, thread_workspace, workspace_ids,
                   workspace_roots, background_thread_callbacks, wire, rpc, cur, locals,
                   lines, emitted, bgsent, delivered, issued, resp_carried, resp_bound,
                   observed, reg_log, inflight_at_eof, reg_task, connVars, busVars,
                   regVars, coreVars, shellVars>>

\* line 776-787: send_request returned within the 15 s.
HandshakeReply ==
    /\ hs.pc = "initialize"
    /\ call[1].pc = "done"
    /\ hs' = IF init_response_ok(call[1].ret)
             THEN [hs EXCEPT !.pc = "notify", !.log = Append(@, "reply")]
             ELSE [hs EXCEPT !.pc = "done", !.result = "error"]
    /\ UNCHANGED <<sessionVars, connVars, busVars, regVars, coreVars, shellVars>>

\* line 788-801: send_notification("initialized") writes the line or fails;
\* after it codex/connected goes to the sink and the session is returned.
HandshakeNotify ==
    /\ hs.pc = "notify"
    /\ \E ok \in BOOLEAN :
         IF ok
         THEN /\ wire' = write_message(wire, [kind |-> "notification", id |-> NoId,
                                              method |-> "initialized"])
              /\ hs' = [hs EXCEPT !.pc = "done", !.result = "session",
                                  !.log = @ \o <<"initialized", "connected">>]
         ELSE /\ wire' = wire
              /\ hs' = [hs EXCEPT !.pc = "done", !.result = "error"]
    /\ UNCHANGED <<next_id, pending, request_context, thread_workspace, workspace_ids,
                   workspace_roots, background_thread_callbacks, chan, call, rpc, cur,
                   locals, lines, emitted, bgsent, delivered, issued, resp_carried,
                   resp_bound, observed, reg_log, inflight_at_eof, reg_task, connVars,
                   busVars, regVars, coreVars, shellVars>>

\* ------------------------------------------------ workspace registry
\* DaemonState's handlers.  A task runs one handler at a time (handle_client
\* awaits it); the tasks of different connections interleave where a handler
\* waits for a child process (git, the agent's handshake, kill): the runtime is
\* single-threaded, and workspaces, sessions and app_settings are never held
\* across such a wait, so taking them never suspends a handler.
MaxOps == 3
MaxPathIndex == 2
Tasks == {1, 2}

\* Uuid::new_v4(): the n-th id handed out.
IdPool == <<"w1", "w2", "w3", "w4", "w5", "w6">>
Uuid(n) == IdPool[n]

\* WorkspaceSettings: codex_home, codex_args, worktree_setup_script.
Settings(h, a, s) == [codex_home |-> h, codex_args |-> a, worktree_setup_script |-> s]
DefaultSettings == Settings(None, None, None)

\* WorkspaceEntry; branch is worktree.branch, None without worktree metadata.
WorkspaceEntry(i, k, par, p, b, bin, st) ==
    [id |-> i, kind |-> k, parent_id |-> par, path |-> p, branch |-> b,
     codex_bin |-> bin, settings |-> st]
NoEntry == WorkspaceEntry(None, "none", None, <<>>, None, None, DefaultSettings)

\* Folders of the user, and the worktree folders under
\* <data_dir>/worktrees/<parent id>/<name>[-<index>].
UserFolder == <<"home", "proj">>
IndexName == <<"1", "2", "3", "4">>
WorktreePath(parent, name, index) ==
    IF index = 1 THEN <<"worktrees", parent, name>>
    ELSE <<"worktrees", parent, name, IndexName[index]>>

\* sanitize_worktree_name, on the branch names used here.
sanitize_worktree_name(branch) ==
    CASE branch = "b/c" -> "b-c"
      [] branch = "/" -> "worktree"
      [] OTHER -> branch

\* unique_worktree_path: the first of name, name-2, .. that does not exist
\* (the program tries up to name-999; here up to name-MaxPathIndex).
unique_worktree_path(dirs, parent, name) ==
    LET free == {i \in 1..MaxPathIndex : WorktreePath(parent, name, i) \notin dirs} IN
    IF free = {} THEN <<>>
    ELSE WorktreePath(parent, name, CHOOSE i \in free : \A j \in free : i <= j)

\* unique_worktree_path_for_rename: as above, but the current path is free.
unique_worktree_path_for_rename(dirs, parent, name, current) ==
    unique_worktree_path(dirs \ {current}, parent, name)

\* The state DaemonState::load builds from a workspaces.json written earlier: a
\* main workspace and a worktree of it; no session is running.  (persisted
\* holds the list of the file by id, as read_workspaces returns it.)
LoadedMain == WorkspaceEntry("w1", "main", None, UserFolder, None, None, DefaultSettings)
LoadedWorktree ==
    WorkspaceEntry("w2", "worktree", "w1", WorktreePath("w1", "b", 1), "b", None, DefaultSettings)

\* A task between two handlers; the fields past `ret` describe the last call.
Idle ==
    [op |-> "none", pc |-> "idle", id |-> None, branch |-> None, path |-> <<>>,
     settings |-> DefaultSettings, entry |-> NoEntry, parent |-> NoEntry, prev |-> NoEntry,
     todo |-> {}, children |-> {}, removed |-> {}, failed |-> {},
     ret |-> None, equal |-> TRUE, wrote |-> FALSE, spawns |-> 0, was_connected |-> FALSE,
     old_session |-> 0, child |-> None, git |-> <<>>]

RegistryInit ==
    /\ workspaces = Put(Put(EmptyMap, "w1", LoadedMain), "w2", LoadedWorktree)
    /\ persisted = workspaces
    /\ sessions = EmptyMap
    /\ fs = {UserFolder, LoadedWorktree.path}
    /\ killed = {}
    /\ alloc = [uuid |-> 2, session |-> 0, ops |-> 0]
    /\ task = [t \in Tasks |-> Idle]

\* A handler call starts: handle_rpc_request dispatches the request.
Begin(t, o) == [Idle EXCEPT !.op = o]

\* (Tasks are interchangeable: task t takes a call only while the tasks below
\* it are busy.)
CanStart(t) ==
    /\ task[t].pc = "idle"
    /\ alloc.ops < MaxOps
    /\ \A d \in Tasks : d < t => task[d].pc # "idle"

\* The handler returns r; `equal` records whether workspaces.json holds the
\* workspaces map at that moment.
Return(st, r, ws, ps) == [st EXCEPT !.pc = "idle", !.ret = r, !.equal = (ws = ps)]

\* kill_session: sessions.remove(id), then the child is killed.
kill_session_map(ss, i) == Del(ss, i)
kill_session_killed(ss, k, i) == IF i \in DOMAIN ss THEN k \cup {ss[i]} ELSE k
regRest == <<sessionVars, connVars, busVars, hs, coreVars, shellVars>>

\* A call was handed to a task.
Counted == [alloc EXCEPT !.ops = @ + 1]

\* The folders add_workspace is called with: the user's folder, a folder that
\* does not exist, and the folder of the loaded worktree.
AddPaths == {UserFolder, <<"home", "gone">>, LoadedWorktree.path}

\* add_workspace 179-223: the path must be a folder; the entry gets a new id;
\* then spawn_workspace_session is awaited.
AddWorkspaceBegin(t) ==
    /\ CanStart(t)
    /\ \E p \in AddPaths :
         IF p \notin fs
         THEN /\ task' = [task EXCEPT ![t] = Return(Begin(t, "add_workspace"), "err",
                                                   workspaces, persisted)]
              /\ alloc' = Counted
         ELSE /\ task' = [task EXCEPT ![t] =
                   [Begin(t, "add_workspace") EXCEPT !.pc = "spawn",
                      !.entry = WorkspaceEntry(Uuid(alloc.uuid + 1), "main", None, p, None,
                                               None, DefaultSettings)]]
              /\ alloc' = [Counted EXCEPT !.uuid = @ + 1]
    /\ UNCHANGED <<workspaces, sessions, persisted, fs, killed, regRest>>

\* workspaces.insert(entry.id, entry)
insert_entry(ws, e) == Put(ws, e.id, e)

\* add_workspace 223-245 and add_worktree 339-361: the session did not come up
\* (error returned); else the entry is inserted, the list written (which may
\* fail, error returned) and the session registered.
AddFinish(t) ==
    /\ task[t].pc = "spawn"
    /\ task[t].op \in {"add_workspace", "add_worktree"}
    /\ \E up \in BOOLEAN, wrote \in BOOLEAN :
         LET e == task[t].entry
             ws == insert_entry(workspaces, e)
             ps == IF wrote THEN ws ELSE persisted
         IN
         IF ~up
         THEN /\ task' = [task EXCEPT ![t] = Return(@, "err", workspaces, persisted)]
              /\ UNCHANGED <<workspaces, sessions, persisted, alloc>>
         ELSE /\ workspaces' = ws
              /\ persisted' = ps
              /\ alloc' = [alloc EXCEPT !.session = @ + 1]
              /\ sessions' = IF wrote THEN Put(sessions, e.id, alloc.session + 1) ELSE sessions
              /\ task' = [task EXCEPT ![t] =
                    Return([@ EXCEPT !.wrote = wrote, !.spawns = 1],
                           IF wrote THEN "ok" ELSE "err", ws, ps)]
    /\ UNCHANGED <<fs, killed, regRest>>

Branches == {"b", "b/c"}

\* add_worktree 247-279: the parent must exist and be no worktree; the path is
\* chosen among those that do not exist; then git is awaited.
AddWorktreeBegin(t) ==
    /\ CanStart(t)
    /\ alloc' = Counted
    /\ \E par \in DOMAIN workspaces \cup {"w9"}, b \in Branches :
         LET st == [Begin(t, "add_worktree") EXCEPT !.id = par, !.branch = b]
             p == unique_worktree_path(fs, par, sanitize_worktree_name(b))
         IN
         IF par \notin DOMAIN workspaces \/ workspaces[par].kind = "worktree" \/ p = <<>>
         THEN task' = [task EXCEPT ![t] = Return(st, "err", workspaces, persisted)]
         ELSE task' = [task EXCEPT ![t] =
                 [st EXCEPT !.pc = "git", !.parent = workspaces[par], !.path = p]]
    /\ UNCHANGED <<workspaces, sessions, persisted, fs, killed, regRest>>

\* add_worktree 279-337: git worktree add made the folder (it refuses a path
\* that exists) or failed; the entry gets a new id and inherits codex_bin and the
\* setup script of the parent as read at the start; then the session is awaited.
AddWorktreeGit(t) ==
    /\ task[t].pc = "git"
    /\ task[t].op = "add_worktree"
    /\ \E ok \in BOOLEAN :
         IF ok /\ task[t].path \notin fs
         THEN /\ fs' = fs \cup {task[t].path}
              /\ alloc' = [alloc EXCEPT !.uuid = @ + 1]
              /\ task' = [task EXCEPT ![t] = [@ EXCEPT !.pc = "spawn",
                    !.entry = WorkspaceEntry(Uuid(alloc.uuid + 1), "worktree",
                                 task[t].parent.id, task[t].path, task[t].branch,
                                 task[t].parent.codex_bin,
                                 Settings(None, None,
                                     task[t].parent.settings.worktree_setup_script))]]
         ELSE /\ task' = [task EXCEPT ![t] = Return(@, "err", workspaces, persisted)]
              /\ UNCHANGED <<fs, alloc>>
    /\ UNCHANGED <<workspaces, sessions, persisted, killed, regRest>>

\* The ids a request can name: those of the map and one that is unknown.
RequestIds == DOMAIN workspaces \cup {"w9"}

\* The entries whose parent_id is `i`.
children_of(ws, i) == {c \in DOMAIN ws : ws[c].parent_id = i}

\* remove_workspace 408-426: the entry must exist and be no worktree; its
\* children are collected; then the children are removed one by one.
RemoveWorkspaceBegin(t) ==
    /\ CanStart(t)
    /\ alloc' = Counted
    /\ \E i \in RequestIds :
         LET st == [Begin(t, "remove_workspace") EXCEPT !.id = i] IN
         IF i \notin DOMAIN workspaces \/ workspaces[i].kind = "worktree"
         THEN task' = [task EXCEPT ![t] = Return(st, "err", workspaces, persisted)]
         ELSE task' = [task EXCEPT ![t] =
                 [st EXCEPT !.pc = "children", !.entry = workspaces[i],
                            !.children = {workspaces[c] : c \in children_of(workspaces, i)},
                            !.todo = children_of(workspaces, i),
                            !.was_connected = i \in DOMAIN sessions,
                            !.old_session = IF i \in DOMAIN sessions THEN sessions[i] ELSE 0]]
    /\ UNCHANGED <<workspaces, sessions, persisted, fs, killed, regRest>>

\* The child entry with id c of the task's snapshot.
child_entry(st, c) == CHOOSE e \in st.children : e.id = c

\* remove_workspace 427-452: one child.  When its folder exists, git worktree
\* remove deletes it, or fails with "is not a working tree" and remove_dir_all
\* deletes it or fails, or fails otherwise; a failure is noted and the child
\* kept; else its session is killed and its id noted as removed.
RemoveWorkspaceChild(t) ==
    /\ task[t].pc = "children"
    /\ \E c \in task[t].todo :
         LET p == child_entry(task[t], c).path IN
         \E gone \in BOOLEAN :
            IF p \notin fs \/ gone
            THEN /\ fs' = fs \ {p}
                 /\ sessions' = kill_session_map(sessions, c)
                 /\ killed' = kill_session_killed(sessions, killed, c)
                 /\ task' = [task EXCEPT ![t] = [@ EXCEPT !.todo = @ \ {c},
                                                          !.removed = @ \cup {c}]]
            ELSE /\ task' = [task EXCEPT ![t] = [@ EXCEPT !.todo = @ \ {c},
                                                          !.failed = @ \cup {c}]]
                 /\ UNCHANGED <<fs, sessions, killed>>
    /\ UNCHANGED <<workspaces, persisted, alloc, regRest>>

\* (Variant: the main workspace's entry stays in the map.)
remove_entries_children(ws, ids) ==
    [i \in DOMAIN ws \ {j \in ids : ws[j].kind = "worktree"} |-> ws[i]]

\* workspaces.remove(id) for each id
remove_entries(ws, ids) == [i \in DOMAIN ws \ ids |-> ws[i]]

\* remove_workspace 454-484: after git worktree prune; without failures the
\* main workspace's session is killed and its id joins the removed ones; the
\* ids are removed from the map and the list is written, unless there are none;
\* a failed write or a noted failure gives an error.
RemoveWorkspaceFinish(t) ==
    /\ task[t].pc = "children"
    /\ task[t].todo = {}
    /\ \E wrote \in BOOLEAN :
         LET st == task[t]
             clean == st.failed = {}
             ids == st.removed \cup (IF clean THEN {st.id} ELSE {})
             ws == remove_entries(workspaces, ids)
             w == wrote /\ ids # {}
             ps == IF w THEN ws ELSE persisted
         IN
         /\ ids = {} => wrote
         /\ sessions' = IF clean THEN kill_session_map(sessions, st.id) ELSE sessions
         /\ killed' = IF clean THEN kill_session_killed(sessions, killed, st.id) ELSE killed
         /\ workspaces' = ws
         /\ persisted' = ps
         /\ task' = [task EXCEPT ![t] =
               Return([st EXCEPT !.wrote = w, !.removed = ids],
                      IF clean /\ (w \/ ids = {}) THEN "ok" ELSE "err", ws, ps)]
    /\ UNCHANGED <<fs, alloc, regRest>>

\* remove_worktree 486-500: the entry must be a worktree whose parent exists;
\* then git worktree remove is awaited (when the folder exists) and prune.
RemoveWorktreeBegin(t) ==
    /\ CanStart(t)
    /\ alloc' = Counted
    /\ \E i \in RequestIds :
         LET st == [Begin(t, "remove_worktree") EXCEPT !.id = i] IN
         IF \/ i \notin DOMAIN workspaces
            \/ workspaces[i].kind # "worktree"
            \/ workspaces[i].parent_id \notin DOMAIN workspaces
         THEN task' = [task EXCEPT ![t] = Return(st, "err", workspaces, persisted)]
         ELSE task' = [task EXCEPT ![t] =
                 [st EXCEPT !.pc = "git", !.entry = workspaces[i],
                            !.parent = workspaces[workspaces[i].parent_id]]]
    /\ UNCHANGED <<workspaces, sessions, persisted, fs, killed, regRest>>

\* remove_worktree 502-533: the folder is gone (or was not there), or the
\* removal failed and the error is returned; then the session is killed, the
\* entry removed from the map and the list written.
RemoveWorktreeFinish(t) ==
    /\ task[t].pc = "git"
    /\ task[t].op = "remove_worktree"
    /\ \E gone \in BOOLEAN, wrote \in BOOLEAN :
         LET st == task[t]
             ws == remove_entries(workspaces, {st.id})
             ps == IF wrote THEN ws ELSE persisted
         IN
         IF st.entry.path \in fs /\ ~gone
         THEN /\ task' = [task EXCEPT ![t] = Return(st, "err", workspaces, persisted)]
              /\ UNCHANGED <<workspaces, sessions, persisted, fs, killed>>
         ELSE /\ fs' = fs \ {st.entry.path}
              /\ sessions' = kill_session_map(sessions, st.id)
              /\ killed' = kill_session_killed(sessions, killed, st.id)
              /\ workspaces' = ws
              /\ persisted' = ps
              /\ task' = [task EXCEPT ![t] =
                    Return([st EXCEPT !.wrote = wrote, !.removed = {st.id}],
                           IF wrote THEN "ok" ELSE "err", ws, ps)]
    /\ UNCHANGED <<alloc, regRest>>

\* unique_branch_name: the name asked for, or that name with a suffix when a
\* branch of that name exists.
unique_branch_name(b) == {b, IF b = "c" THEN "c-2" ELSE "b-2"}

\* rename_worktree 535-566: the entry must be a worktree with a parent and a
\* branch other than the one asked for; then git is awaited.
RenameWorktreeBegin(t) ==
    /\ CanStart(t)
    /\ alloc' = Counted
    /\ \E i \in RequestIds, b \in {"b", "c"} :
         LET st == [Begin(t, "rename_worktree") EXCEPT !.id = i, !.branch = b] IN
         IF \/ i \notin DOMAIN workspaces
            \/ workspaces[i].kind # "worktree"
            \/ workspaces[i].parent_id \notin DOMAIN workspaces
            \/ workspaces[i].branch \in {None, b}
         THEN task' = [task EXCEPT ![t] = Return(st, "err", workspaces, persisted)]
         ELSE task' = [task EXCEPT ![t] =
                 [st EXCEPT !.pc = "git", !.entry = workspaces[i], !.prev = workspaces[i],
                            !.parent = workspaces[workspaces[i].parent_id]]]
    /\ UNCHANGED <<workspaces, sessions, persisted, fs, killed, regRest>>

\* rename_worktree 607-632: the entry (if still in the map) gets the branch and
\* the path, the list is written, and a running session is killed to be
\* replaced.  st.branch and st.path are final_branch and next_path.
RenameStore(t, st, dirs) ==
    IF st.id \notin DOMAIN workspaces
    THEN /\ task' = [task EXCEPT ![t] = Return(st, "err", workspaces, persisted)]
         /\ fs' = dirs
         /\ UNCHANGED <<workspaces, sessions, persisted, killed>>
    ELSE \E wrote \in BOOLEAN :
         LET e == [workspaces[st.id] EXCEPT !.path = st.path, !.branch = st.branch]
             ws == insert_entry(workspaces, e)
             ps == IF wrote THEN ws ELSE persisted
             connected == wrote /\ st.id \in DOMAIN sessions
         IN
         /\ fs' = dirs
         /\ workspaces' = ws
         /\ persisted' = ps
         /\ sessions' = IF connected THEN kill_session_map(sessions, st.id) ELSE sessions
         /\ killed' = IF connected THEN kill_session_killed(sessions, killed, st.id)
                      ELSE killed
         /\ task' = [task EXCEPT ![t] =
               IF connected THEN [st EXCEPT !.pc = "spawn", !.entry = e, !.wrote = TRUE]
               ELSE Return([st EXCEPT !.entry = e, !.wrote = wrote],
                           IF wrote THEN "ok" ELSE "err", ws, ps)]

\* rename_worktree 568-605: unique_branch_name and git branch -m fail, or give
\* the final branch; the next path is chosen; when it is the current one the
\* entry is stored at once, else git worktree move is awaited.
RenameWorktreeGit(t) ==
    /\ task[t].pc = "git"
    /\ task[t].op = "rename_worktree"
    /\ \E ok \in BOOLEAN, final \in unique_branch_name(task[t].branch) :
         LET next == unique_worktree_path_for_rename(fs, task[t].parent.id,
                        sanitize_worktree_name(final), task[t].entry.path)
             st == [task[t] EXCEPT !.branch = final, !.path = next,
                      !.git = Append(@, <<"branch -m", task[t].entry.branch, final>>)]
         IN
         IF ~ok \/ final = task[t].entry.branch \/ next = <<>>
         THEN /\ task' = [task EXCEPT ![t] = Return(@, "err", workspaces, persisted)]
              /\ UNCHANGED <<workspaces, sessions, persisted, fs, killed>>
         ELSE IF next = task[t].entry.path
         THEN RenameStore(t, st, fs)
         ELSE /\ task' = [task EXCEPT ![t] = [st EXCEPT !.pc = "move"]]
              /\ UNCHANGED <<workspaces, sessions, persisted, fs, killed>>
    /\ UNCHANGED <<alloc, regRest>>

\* (Variant: the revert names the branches in the order of the rename.)
revert_command_repeats(st) == <<"branch -m", st.prev.branch, st.branch>>

\* rename_worktree 598-601: git branch -m final_branch old_branch
revert_command(st) == <<"branch -m", st.branch, st.prev.branch>>

\* rename_worktree 592-632: git worktree move moved the folder (it needs the
\* source and refuses a target that exists) and the entry is stored, or it
\* failed and the revert of the branch rename is awaited.
RenameWorktreeMove(t) ==
    /\ task[t].pc = "move"
    /\ \E ok \in BOOLEAN :
         LET st == [task[t] EXCEPT
                      !.git = Append(@, <<"worktree move", task[t].entry.path, task[t].path>>)]
         IN
         IF ok /\ task[t].entry.path \in fs /\ task[t].path \notin fs
         THEN RenameStore(t, st, (fs \ {task[t].entry.path}) \cup {task[t].path})
         ELSE /\ task' = [task EXCEPT ![t] = [st EXCEPT !.pc = "revert"]]
              /\ UNCHANGED <<workspaces, sessions, persisted, fs, killed>>
    /\ UNCHANGED <<alloc, regRest>>

\* rename_worktree 597-604: the revert has run (its result is ignored) and the
\* error of the move is returned.
RenameWorktreeRevert(t) ==
    /\ task[t].pc = "revert"
    /\ task' = [task EXCEPT ![t] =
          Return([@ EXCEPT !.git = Append(@, revert_command(task[t]))], "err",
                 workspaces, persisted)]
    /\ UNCHANGED <<workspaces, sessions, persisted, fs, killed, alloc, regRest>>

\* rename_worktree 634-685: the replacement session came up and is registered,
\* or did not (logged); success is returned.
RenameWorktreeRespawn(t) ==
    /\ task[t].pc = "spawn"
    /\ task[t].op = "rename_worktree"
    /\ \E up \in BOOLEAN :
         /\ sessions' = IF up THEN Put(sessions, task[t].id, alloc.session + 1) ELSE sessions
         /\ alloc' = IF up THEN [alloc EXCEPT !.session = @ + 1] ELSE alloc
    /\ task' = [task EXCEPT ![t] = Return(@, "ok", workspaces, persisted)]
    /\ UNCHANGED <<workspaces, persisted, fs, killed, regRest>>

\* normalize_setup_script 69-75: a script that is blank after trim is None.
normalize_setup_script(script) == IF script \in {"", " "} THEN None ELSE script

\* codex_home::resolve_workspace_codex_home(entry, parent): the workspace's own
\* codex_home; a worktree without one inherits its parent's; else the default
\* (None).
resolve_workspace_codex_home(entry, parent) ==
    IF entry.settings.codex_home # None THEN entry.settings.codex_home
    ELSE IF entry.kind = "worktree" /\ parent # NoEntry THEN parent.settings.codex_home
    ELSE None

\* codex_args::resolve_workspace_codex_args(entry, parent, app_settings): the
\* workspace's own codex_args; a worktree without them inherits its parent's;
\* else those of the app settings (None here).
resolve_workspace_codex_args(entry, parent) ==
    IF entry.settings.codex_args # None THEN entry.settings.codex_args
    ELSE IF entry.kind = "worktree" /\ parent # NoEntry THEN parent.settings.codex_args
    ELSE None

\* The settings update_workspace_settings is called with.
SettingsInputs ==
    {DefaultSettings, Settings("h", None, None), Settings(None, "a", " "),
     Settings(None, None, "s")}

\* update_workspace_settings 824-825
codex_home_changed(st) == st.prev.settings.codex_home # st.entry.settings.codex_home
codex_args_changed(st) == st.prev.settings.codex_args # st.entry.settings.codex_args

\* update_workspace_settings 872-899: the children of the snapshot still to be
\* looked at that have a session in `ss` and whose resolved CODEX_HOME or
\* arguments differ between the previous and the new parent entry.
children_to_respawn(st, ss) ==
    {c \in st.todo :
       LET ch == child_entry(st, c) IN
       /\ c \in DOMAIN ss
       /\ \/ resolve_workspace_codex_home(ch, st.prev) # resolve_workspace_codex_home(ch, st.entry)
          \/ resolve_workspace_codex_args(ch, st.prev) # resolve_workspace_codex_args(ch, st.entry)}

\* update_workspace_settings 928-942: a changed setup script of a main
\* workspace is copied to the children of the snapshot still in the map.
propagate_setup_script(st, ws) ==
    IF /\ st.prev.settings.worktree_setup_script # st.entry.settings.worktree_setup_script
       /\ st.entry.kind # "worktree"
    THEN [i \in DOMAIN ws |->
            IF i \in {e.id : e \in st.children}
            THEN [ws[i] EXCEPT !.settings.worktree_setup_script =
                                  st.entry.settings.worktree_setup_script]
            ELSE ws[i]]
    ELSE ws

\* update_workspace_settings 872-961, from the children loop on, with the
\* map `ws0` and the sessions `ss`: the loop passes the children it need not respawn and stops at
\* one it respawns (spawn_workspace_session awaited); after the loop the setup
\* script is propagated, the list written (which may fail) and the call returns.
UpdateSettingsAdvance(t, st, ws0, ss) ==
    LET respawn == children_to_respawn(st, ss) IN
    IF respawn # {}
    THEN /\ \E c \in respawn, passed \in SUBSET (st.todo \ respawn) :
              task' = [task EXCEPT ![t] =
                        [st EXCEPT !.pc = "child_spawn", !.child = c,
                                   !.todo = @ \ ({c} \cup passed)]]
         /\ workspaces' = ws0
         /\ UNCHANGED persisted
    ELSE \E wrote \in BOOLEAN :
           LET ws == propagate_setup_script(st, ws0)
               ps == IF wrote THEN ws ELSE persisted IN
           /\ workspaces' = ws
           /\ persisted' = ps
           /\ task' = [task EXCEPT ![t] =
                 Return([st EXCEPT !.wrote = wrote, !.todo = {}],
                        IF wrote THEN "ok" ELSE "err", ws, ps)]

\* update_workspace_settings 770-828: the entry gets the new settings (setup
\* script normalized); the previous entry, the new one, the parent and the
\* children are kept; with a session running and codex_home or codex_args
\* changed, the replacement is spawned and awaited.
UpdateSettingsBegin(t) ==
    /\ CanStart(t)
    /\ alloc' = Counted
    /\ \E i \in RequestIds, s \in SettingsInputs :
         LET new == [s EXCEPT !.worktree_setup_script = normalize_setup_script(@)]
             b == [Begin(t, "update_workspace_settings") EXCEPT !.id = i, !.settings = new]
         IN
         IF i \notin DOMAIN workspaces
         THEN /\ task' = [task EXCEPT ![t] = Return(b, "err", workspaces, persisted)]
              /\ UNCHANGED <<workspaces, persisted>>
         ELSE LET previous_entry == workspaces[i]
                  entry_snapshot == [previous_entry EXCEPT !.settings = new]
                  ws == insert_entry(workspaces, entry_snapshot)
                  parent_entry == IF entry_snapshot.parent_id \in DOMAIN ws
                                  THEN ws[entry_snapshot.parent_id] ELSE NoEntry
                  connected == i \in DOMAIN sessions
                  st0 == [b EXCEPT !.prev = previous_entry, !.entry = entry_snapshot,
                                   !.parent = parent_entry,
                                   !.children = {ws[c] : c \in children_of(ws, i)},
                                   !.was_connected = connected,
                                   !.old_session = IF connected THEN sessions[i] ELSE 0]
                  st == [st0 EXCEPT !.todo = IF codex_home_changed(st0) \/ codex_args_changed(st0)
                                             THEN children_of(ws, i) ELSE {}]
              IN
              IF connected /\ (codex_home_changed(st) \/ codex_args_changed(st))
              THEN /\ task' = [task EXCEPT ![t] = [st EXCEPT !.pc = "spawn", !.spawns = 1]]
                   /\ workspaces' = ws
                   /\ UNCHANGED persisted
              ELSE UpdateSettingsAdvance(t, st, ws, sessions)
    /\ UNCHANGED <<sessions, fs, killed, regRest>>

\* sessions.insert(id, new_session), the session it replaces killed
swap_session(ss, i, n) == Put(ss, i, n)
swap_killed(ss, k, i) == IF i \in DOMAIN ss THEN k \cup {ss[i]} ELSE k

\* (Variant: the new settings stay in the map.)
rollback_skipped(ws, st) == ws

\* update_workspace_settings 855-858: workspaces.insert(rollback_entry.id, rollback_entry)
rollback(ws, st) == insert_entry(ws, st.prev)

\* update_workspace_settings 829-871: the replacement did not come up: the
\* previous entry is put back and the error returned; or it did: it takes the
\* place of the session registered for the id, which is killed, and the call
\* goes on with the children.
UpdateSettingsSpawn(t) ==
    /\ task[t].pc = "spawn"
    /\ task[t].op = "update_workspace_settings"
    /\ \E up \in BOOLEAN :
         LET st == task[t] IN
         IF ~up
         THEN /\ workspaces' = rollback(workspaces, st)
              /\ task' = [task EXCEPT ![t] = Return(st, "err", workspaces', persisted)]
              /\ UNCHANGED <<sessions, persisted, killed, alloc>>
         ELSE /\ sessions' = swap_session(sessions, st.id, alloc.session + 1)
              /\ killed' = swap_killed(sessions, killed, st.id)
              /\ alloc' = [alloc EXCEPT !.session = @ + 1]
              /\ UpdateSettingsAdvance(t, st, workspaces, sessions')
    /\ UNCHANGED <<fs, regRest>>

\* update_workspace_settings 900-925: a child's replacement did not come up
\* (logged, next child), or it did and takes the place of the child's session,
\* which is killed.
UpdateSettingsChildSpawn(t) ==
    /\ task[t].pc = "child_spawn"
    /\ \E up \in BOOLEAN :
         LET st == [task[t] EXCEPT !.child = None]
             c == task[t].child IN
         /\ sessions' = IF up THEN swap_session(sessions, c, alloc.session + 1) ELSE sessions
         /\ killed' = IF up THEN swap_killed(sessions, killed, c) ELSE killed
         /\ alloc' = IF up THEN [alloc EXCEPT !.session = @ + 1] ELSE alloc
         /\ UpdateSettingsAdvance(t, st, workspaces, sessions')
    /\ UNCHANGED <<fs, regRest>>

\* update_workspace_codex_bin 963-994: the entry gets the codex_bin and the
\* list is written (which may fail).
UpdateWorkspaceCodexBin(t) ==
    /\ CanStart(t)
    /\ alloc' = Counted
    /\ \E i \in RequestIds, bin \in {None, "bin"}, wrote \in BOOLEAN :
         LET b == [Begin(t, "update_workspace_codex_bin") EXCEPT !.id = i] IN
         IF i \notin DOMAIN workspaces
         THEN /\ wrote
              /\ task' = [task EXCEPT ![t] = Return(b, "err", workspaces, persisted)]
              /\ UNCHANGED <<workspaces, persisted>>
         ELSE LET ws == insert_entry(workspaces, [workspaces[i] EXCEPT !.codex_bin = bin])
                  ps == IF wrote THEN ws ELSE persisted IN
              /\ workspaces' = ws
              /\ persisted' = ps
              /\ task' = [task EXCEPT ![t] =
                    Return([b EXCEPT !.wrote = wrote], IF wrote THEN "ok" ELSE "err", ws, ps)]
    /\ UNCHANGED <<sessions, fs, killed, regRest>>

\* connect_workspace 996-1036: nothing to do with a session registered; the
\* entry must exist; then spawn_workspace_session is awaited.
ConnectWorkspaceBegin(t) ==
    /\ CanStart(t)
    /\ alloc' = Counted
    /\ \E i \in RequestIds :
         LET b == [Begin(t, "connect_workspace") EXCEPT !.id = i] IN
         task' = [task EXCEPT ![t] =
                   IF i \in DOMAIN sessions THEN Return(b, "ok", workspaces, persisted)
                   ELSE IF i \notin DOMAIN workspaces
                        THEN Return(b, "err", workspaces, persisted)
                   ELSE [b EXCEPT !.pc = "spawn", !.entry = workspaces[i]]]
    /\ UNCHANGED <<workspaces, sessions, persisted, fs, killed, regRest>>

\* connect_workspace 1037-1046: the session did not come up (error), or it is
\* registered.
ConnectWorkspaceSpawn(t) ==
    /\ task[t].pc = "spawn"
    /\ task[t].op = "connect_workspace"
    /\ \E up \in BOOLEAN :
         /\ sessions' = IF up THEN Put(sessions, task[t].id, alloc.session + 1) ELSE sessions
         /\ alloc' = IF up THEN [alloc EXCEPT !.session = @ + 1] ELSE alloc
         /\ task' = [task EXCEPT ![t] =
                       Return(@, IF up THEN "ok" ELSE "err", workspaces, persisted)]
    /\ UNCHANGED <<workspaces, persisted, fs, killed, regRest>>

\* ------------------------------------------------- workspace root resolver
\* The number of namespace prefixes in front of a path given to the resolver.
MaxPrefixes == 2

NamespacePrefixes ==
    {<<"/", "/", "?", "/">>, <<"/", "/", ".", "/">>,
     <<"\\", "\\", "?", "\\", "U", "N", "C", "\\">>}

PathBodies ==
    {<<>>, <<"/">>, <<"C", ":", "\\", "a">>, <<"c", ":", "/", "a", "/">>,
     PathRoot, PathSub, PathOther}

RECURSIVE PrefixChains(_)
PrefixChains(n) ==
    IF n = 0 THEN {<<>>}
    ELSE LET shorter == PrefixChains(n - 1) IN
         shorter \cup {p \o c : p \in NamespacePrefixes, c \in shorter}

PathInputs == {p \o b : p \in PrefixChains(MaxPrefixes), b \in PathBodies}

\* The paths workspaces are registered with.
RootInputs == {PathRoot, PathSubTrailing, <<"/">>, <<"C", ":", "\\", "a">>}

RootIds == {"W1", "W2"}

\* The orders in which a HashMap with keys in RootIds can be iterated.
IterationOrders == {<<"W1", "W2">>, <<"W2", "W1">>}

\* Other spellings of a path: backslashes, a trailing slash, a //?/ prefix, the
\* drive letter in the other case.
toggle_drive_case(s) ==
    IF Len(s) >= 2 /\ s[2] = ":" /\ s[1] \in {"c", "C"}
    THEN <<IF s[1] = "c" THEN "C" ELSE "c">> \o SubSeq(s, 2, Len(s))
    ELSE s

replace_slash(s) == [i \in 1..Len(s) |-> IF s[i] = Slash THEN Backslash ELSE s[i]]

CwdForms(cwd) ==
    {cwd, replace_slash(cwd), cwd \o <<Slash>>, <<"/", "/", "?", "/">> \o cwd,
     toggle_drive_case(cwd)}

\* workspace_roots.iter(): the entries of the map in the order the map has.
iter(roots, order) == SelectSeq(order, LAMBDA w : w \in DOMAIN roots)

\* Iterator::max_by_key on (workspace_id, root.len()): the last element of the
\* iteration whose key is maximal, None on an empty iteration.
max_by_key(cands, roots) ==
    IF cands = <<>> THEN None
    ELSE LET i == CHOOSE i \in 1..Len(cands) :
                     /\ \A j \in 1..Len(cands) : Len(roots[cands[j]]) <= Len(roots[cands[i]])
                     /\ \A j \in (i + 1)..Len(cands) : Len(roots[cands[j]]) < Len(roots[cands[i]])
         IN cands[i]

\* resolve_workspace_for_cwd on a map that iterates in the given order.
resolve_in_order(cwd, roots, order) ==
    LET normalized_cwd == normalize_root_path(cwd) IN
    IF Len(normalized_cwd) = 0 THEN None
    ELSE max_by_key(SelectSeq(iter(roots, order),
                              LAMBDA w : w \in matching_roots(normalized_cwd, roots)),
                    roots)

Unset == "unset"

ResolverIdle ==
    [pc |-> "done", paths |-> EmptyMap, ids |-> {}, order |-> <<"W1", "W2">>, roots |-> EmptyMap,
     cwd |-> <<>>, alt |-> <<>>, result |-> Unset, alt_result |-> Unset,
     once |-> Unset, twice |-> Unset]

ResolverInit == resolver = ResolverIdle

\* The inputs: a path per workspace, the order of the map, a cwd and a second
\* spelling of it.
ResolverInputs ==
    \E ps \in [RootIds -> RootInputs], o \in IterationOrders, c \in PathInputs :
      \E a \in CwdForms(c) :
        resolver = [ResolverIdle EXCEPT !.pc = "register", !.paths = ps, !.order = o,
                                        !.cwd = c, !.alt = a]

\* register_workspace_with_path(w, Some(path)): the id is inserted, the root
\* only when it does not normalize to the empty string.
ResolverRegister(w) ==
    /\ resolver.pc = "register"
    /\ w \notin resolver.ids
    /\ LET normalized == normalize_root_path(resolver.paths[w]) IN
       resolver' = [resolver EXCEPT
            !.ids = @ \cup {w},
            !.roots = IF Len(normalized) > 0 THEN Put(@, w, normalized) ELSE @,
            !.pc = IF resolver.ids \cup {w} = RootIds THEN "resolve" ELSE "register"]
    /\ UNCHANGED <<login, cli, bgtask>>
    /\ UNCHANGED coreRest

\* resolve_workspace_for_cwd(cwd, roots)
ResolverResolve ==
    /\ resolver.pc = "resolve"
    /\ resolver' = [resolver EXCEPT
            !.result = resolve_in_order(resolver.cwd, resolver.roots, resolver.order),
            !.pc = "resolve_alt"]
    /\ UNCHANGED <<login, cli, bgtask>>
    /\ UNCHANGED coreRest

\* resolve_workspace_for_cwd(alt, roots) on the same map
ResolverResolveAlt ==
    /\ resolver.pc = "resolve_alt"
    /\ resolver' = [resolver EXCEPT
            !.alt_result = resolve_in_order(resolver.alt, resolver.roots, resolver.order),
            !.pc = "normalize"]
    /\ UNCHANGED <<login, cli, bgtask>>
    /\ UNCHANGED coreRest

\* normalize_root_path(cwd), then normalize_root_path of what it returned
ResolverNormalize ==
    /\ resolver.pc = "normalize"
    /\ resolver' = [resolver EXCEPT !.once = normalize_root_path(resolver.cwd),
                                    !.pc = "again"]
    /\ UNCHANGED <<login, cli, bgtask>>
    /\ UNCHANGED coreRest

ResolverNormalizeAgain ==
    /\ resolver.pc = "again"
    /\ resolver' = [resolver EXCEPT !.twice = normalize_root_path(resolver.once),
                                    !.pc = "done"]
    /\ UNCHANGED <<login, cli, bgtask>>
    /\ UNCHANGED coreRest

\* --------------------------------------------------- login state machine
\* The calls of codex_login_core and of codex_login_cancel_core.
MaxLoginCalls == 2
MaxCancelCalls == 2

LoginCalls == 1..MaxLoginCalls
CancelCalls == 1..MaxCancelCalls
LoginWorkspaces == {"W1", "W2"}

\* The login id the agent hands out for the start request of call k.
LoginIdOf(k) == IF k = 1 THEN "L1" ELSE IF k = 2 THEN "L2" ELSE "L3"

\* CodexLoginCancelState
PendingStart(k) == [kind |-> "PendingStart", tx |-> k, login_id |-> None]
LoginId(l) == [kind |-> "LoginId", tx |-> 0, login_id |-> l]

\* cancels.get / cancels.remove finding nothing
NoCancel == [kind |-> "None", tx |-> 0, login_id |-> None]

cancel_entry(cancels, ws) == IF ws \in DOMAIN cancels THEN cancels[ws] ELSE NoCancel

\* What the agent's answer to account/login/start can be for the caller: a
\* result with loginId and authUrl, a result without them, or Err from
\* send_request_for_workspace.
StartReplies == {"login", "no_login_id", "error"}

LoginCallIdle ==
    [pc |-> "idle", ws |-> None, rx |-> "none", requested |-> FALSE, reply |-> None,
     ret |-> None, by_cancel |-> FALSE]

CancelCallIdle ==
    [pc |-> "idle", ws |-> None, found |-> NoCancel, sent_before |-> 0, ret |-> None]

LoginStateInit(connected) ==
    login = [connected |-> connected, cancels |-> EmptyMap,
             lc |-> [k \in LoginCalls |-> LoginCallIdle],
             cc |-> [k \in CancelCalls |-> CancelCallIdle],
             sent |-> <<>>]

LoginInit == LoginStateInit({})

\* tx.send(()) on the sender held by a map entry: the receiver sees it unless
\* it was signaled or dropped before.
signal(calls, entry) ==
    IF entry.kind = "PendingStart" /\ calls[entry.tx].rx = "empty"
    THEN [calls EXCEPT ![entry.tx].rx = "signaled"]
    ELSE calls

\* An entry leaves the map and is dropped: a sender that was never used closes
\* its channel.  (rx is "none" before the call and once it has returned.)
drop_entry(calls, entry) ==
    IF entry.kind = "PendingStart" /\ calls[entry.tx].rx = "empty"
    THEN [calls EXCEPT ![entry.tx].rx = "closed"]
    ELSE calls

Request(method, params) == [method |-> method, params |-> params]

\* codex_login_core up to the loop: get_session_clone, then under the lock an
\* existing PendingStart is signaled and this call's PendingStart inserted.
LoginBegin(k, ws) ==
    /\ login.lc[k].pc = "idle"
    /\ IF ws \notin login.connected
       THEN login' = [login EXCEPT !.lc[k].pc = "done", !.lc[k].ws = ws,
                                   !.lc[k].ret = "workspace not connected"]
       ELSE LET existing == cancel_entry(login.cancels, ws)
                calls == signal(login.lc, existing)
            IN login' = [login EXCEPT
                    !.cancels = Put(@, ws, PendingStart(k)),
                    !.lc = [calls EXCEPT ![k].pc = "poll", ![k].ws = ws,
                                         ![k].rx = "empty"]]
    /\ UNCHANGED <<resolver, cli, bgtask>>
    /\ UNCHANGED coreRest

\* The top of the loop: cancel_rx.try_recv(), then the elapsed time; a call that
\* goes on awaits timeout(wait_for, &mut login_request), whose first poll writes
\* the request.
LoginPoll(k, elapsed) ==
    /\ login.lc[k].pc = "poll"
    /\ LET me == login.lc[k]
           entry == cancel_entry(login.cancels, me.ws)
       IN IF me.rx \in {"signaled", "closed"}
          THEN login' = [login EXCEPT
                  !.cancels = Del(@, me.ws),
                  !.lc = [drop_entry(@, entry) EXCEPT
                            ![k].pc = "done", ![k].rx = "none",
                            ![k].ret = "Codex login canceled."]]
          ELSE IF elapsed
          THEN login' = [login EXCEPT
                  !.cancels = Del(@, me.ws),
                  !.lc = [drop_entry(@, entry) EXCEPT
                            ![k].pc = "done", ![k].rx = "none",
                            ![k].ret = "Codex login start timed out."]]
          ELSE login' = [login EXCEPT
                  !.lc[k].pc = "wait",
                  !.lc[k].requested = TRUE,
                  !.sent = IF me.requested THEN @
                           ELSE Append(@, Request("account/login/start", "chatgpt"))]
    /\ UNCHANGED <<resolver, cli, bgtask>>
    /\ UNCHANGED coreRest

\* The agent's answer to the start request reaches the caller's future.
LoginReply(k, r) ==
    /\ login.lc[k].pc = "wait"
    /\ login.lc[k].reply = None
    /\ login' = [login EXCEPT !.lc[k].reply = r]
    /\ UNCHANGED <<resolver, cli, bgtask>>
    /\ UNCHANGED coreRest

\* timeout(wait_for, &mut login_request) returns: Err(_elapsed) when the tick
\* ends without an answer, else the answer, which ends the loop; `result?`, the
\* login id and the insert of LoginId follow.
LoginWait(k) ==
    /\ login.lc[k].pc = "wait"
    /\ LET me == login.lc[k]
           entry == cancel_entry(login.cancels, me.ws)
       IN CASE me.reply = None ->
                 login' = [login EXCEPT !.lc[k].pc = "poll"]
            [] me.reply = "error" ->
                 login' = [login EXCEPT !.lc[k].pc = "done", !.lc[k].rx = "none",
                                         !.lc[k].ret = "error"]
            [] me.reply = "no_login_id" ->
                 login' = [login EXCEPT
                     !.lc[k].pc = "done", !.lc[k].rx = "none",
                     !.lc[k].ret = "missing login id in account/login/start response"]
            [] me.reply = "login" ->
                 login' = [login EXCEPT
                     !.cancels = Put(@, me.ws, LoginId(LoginIdOf(k))),
                     !.lc = [drop_entry(@, entry) EXCEPT
                               ![k].pc = "done", ![k].rx = "none",
                               ![k].ret = LoginIdOf(k)]]
    /\ UNCHANGED <<resolver, cli, bgtask>>
    /\ UNCHANGED coreRest

\* codex_login_cancel_core up to its return or to the request it awaits.
CancelBegin(k, ws) ==
    /\ login.cc[k].pc = "idle"
    /\ LET cancel_state == cancel_entry(login.cancels, ws)
           start == [login.cc[k] EXCEPT !.ws = ws, !.found = cancel_state,
                                       !.sent_before = Len(login.sent)]
       IN CASE cancel_state.kind = "None" ->
                 login' = [login EXCEPT
                     !.cc[k] = [start EXCEPT !.pc = "done", !.ret = "not canceled"]]
            [] cancel_state.kind = "PendingStart" ->
                 login' = [login EXCEPT
                     !.cancels = Del(@, ws),
                     !.lc = [signal(@, cancel_state) EXCEPT
                               ![cancel_state.tx].by_cancel =
                                   login.lc[cancel_state.tx].rx = "empty"],
                     !.cc[k] = [start EXCEPT !.pc = "done", !.ret = "canceled"]]
            [] cancel_state.kind = "LoginId" ->
                 IF ws \notin login.connected
                 THEN login' = [login EXCEPT
                         !.cancels = Del(@, ws),
                         !.cc[k] = [start EXCEPT !.pc = "done",
                                                 !.ret = "workspace not connected"]]
                 ELSE login' = [login EXCEPT
                         !.cancels = Del(@, ws),
                         !.sent = Append(@, Request("account/login/cancel",
                                                    cancel_state.login_id)),
                         !.cc[k] = [start EXCEPT !.pc = "await"]]
    /\ UNCHANGED <<resolver, cli, bgtask>>
    /\ UNCHANGED coreRest

\* The answer to account/login/cancel (or Err from the request) comes back.
CancelReply(k, r) ==
    /\ login.cc[k].pc = "await"
    /\ login' = [login EXCEPT !.cc[k].pc = "done", !.cc[k].ret = r]
    /\ UNCHANGED <<resolver, cli, bgtask>>
    /\ UNCHANGED coreRest

\* The session of a workspace goes away (remove_workspace, kill).
LoginDisconnect(ws) ==
    /\ ws \in login.connected
    /\ login' = [login EXCEPT !.connected = @ \ {ws}]
    /\ UNCHANGED <<resolver, cli, bgtask>>
    /\ UNCHANGED coreRest

CancelReplies == {"canceled", "not canceled", "error"}

\* ------------------------------------------------------ daemon command line
\* The number of words on the command line (after the program name).
MaxArgs == 3

ListenAddr == "127.0.0.1:4732"

ArgWords ==
    {"--token", "--insecure-no-auth", "--listen", "--data-dir", "-h", "secret", " ",
     ListenAddr}

\* CODEX_MONITOR_DAEMON_TOKEN: unset, blank, or a token_opt.
EnvTokens == {None, " ", "envsecret"}

RECURSIVE ArgLists(_)
ArgLists(n) ==
    IF n = 0 THEN {<<>>}
    ELSE LET shorter == ArgLists(n - 1) IN
         shorter \cup {Append(a, w) : a \in {b \in shorter : Len(b) = n - 1}, w \in ArgWords}

\* str::trim on the words that occur.
trim(value) == IF value = " " THEN "" ELSE value

\* value.parse::<SocketAddr>() succeeds
parses_as_socket_addr(value) == value = ListenAddr

ParseError(message) == [kind |-> "error", token |-> None, message |-> message]
ParseHelp == [kind |-> "help", token |-> None, message |-> None]
DaemonConfig(token_opt) == [kind |-> "config", token |-> token_opt, message |-> None]

\* The token parse_args starts with: the trimmed environment value, if not empty.
env_token(env) == IF env = None \/ trim(env) = "" THEN None ELSE trim(env)

\* The check after the loop: no token and no --insecure-no-auth is an error.
finish_args(token_opt, insecure_no_auth) ==
    IF token_opt = None /\ ~insecure_no_auth
    THEN ParseError("Missing --token")
    ELSE DaemonConfig(token_opt)

\* --insecure-no-auth: the flag is set and the token cleared.
insecure_arg(token_opt) == None

\* The while loop of parse_args from word i on.
RECURSIVE parse_from(_, _, _, _)
parse_from(args, i, token_opt, insecure_no_auth) ==
    IF i > Len(args) THEN finish_args(token_opt, insecure_no_auth)
    ELSE LET arg == args[i]
             has_value == i + 1 <= Len(args)
         IN CASE arg \in {"-h", "--help"} -> ParseHelp
              [] arg = "--listen" ->
                   IF ~has_value THEN ParseError("--listen requires a value")
                   ELSE IF ~parses_as_socket_addr(args[i + 1])
                   THEN ParseError("invalid socket address syntax")
                   ELSE parse_from(args, i + 2, token_opt, insecure_no_auth)
              [] arg = "--token" ->
                   IF ~has_value THEN ParseError("--token_opt requires a value")
                   ELSE IF trim(args[i + 1]) = ""
                   THEN ParseError("--token_opt requires a non-empty value")
                   ELSE parse_from(args, i + 2, trim(args[i + 1]), insecure_no_auth)
              [] arg = "--data-dir" ->
                   IF ~has_value THEN ParseError("--data-dir requires a value")
                   ELSE IF trim(args[i + 1]) = ""
                   THEN ParseError("--data-dir requires a non-empty value")
                   ELSE parse_from(args, i + 2, token_opt, insecure_no_auth)
              [] arg = "--insecure-no-auth" ->
                   parse_from(args, i + 1, insecure_arg(token_opt), TRUE)
              [] OTHER -> ParseError("Unknown argument")

parse_args(args, env) == parse_from(args, 1, env_token(env), FALSE)

CliIdle == [pc |-> "off", args |-> <<>>, env |-> None, parsed |-> ParseHelp,
            exit_code |-> NoId, token |-> None]

CliInit == cli = CliIdle

\* The inputs: a command line and the environment variable.
CliInputs ==
    \E a \in ArgLists(MaxArgs), e \in EnvTokens :
        cli = [CliIdle EXCEPT !.pc = "start", !.args = a, !.env = e]

\* main calls parse_args; -h and --help print the usage and exit with 0.
CliParse ==
    /\ cli.pc = "start"
    /\ LET r == parse_args(cli.args, cli.env) IN
       cli' = [cli EXCEPT !.parsed = r,
                          !.pc = IF r.kind = "help" THEN "exited" ELSE "parsed",
                          !.exit_code = IF r.kind = "help" THEN 0 ELSE NoId]
    /\ UNCHANGED <<resolver, login, bgtask>>
    /\ UNCHANGED coreRest

\* main: Err prints the message and the usage and exits with 2; Ok goes on to
\* the runtime with the config.
CliMain ==
    /\ cli.pc = "parsed"
    /\ cli' = IF cli.parsed.kind = "error"
              THEN [cli EXCEPT !.pc = "exited", !.exit_code = 2]
              ELSE [cli EXCEPT !.pc = "running", !.token = cli.parsed.token]
    /\ UNCHANGED <<resolver, login, bgtask>>
    /\ UNCHANGED coreRest

\* ------------------------------------------------ background thread task
\* The lines the agent sends while a commit message is generated.
MaxBackgroundLines == 3

BackgroundTask(pc) == [pc |-> pc, thread_id |-> None, result |-> None]

BackgroundInit == bgtask = BackgroundTask("off")

\* The subscriber of generate_commit_message (the tx of its mpsc channel).
BackgroundSubscriber == "S1"

\* The lines of the agent: the answers to the task's three requests, the first
\* with the new thread's id, an error answer, and events of the thread.
BackgroundTraffic ==
    {Response(1, CamelObj("T1"), <<>>), ErrorResponse(1),
     Response(2, EmptyObj, <<>>), Response(3, EmptyObj, <<>>),
     Notification("thread/started", CamelObj("T1")),
     Notification("item/agentMessage/delta", CamelObj("T1"))}

\* session.send_request(method, params) of the task at its position.
BackgroundRequests ==
    CASE bgtask.pc = "thread_start" -> {OutReq(owner_workspace_id, "thread/start", None)}
      [] bgtask.pc = "turn_start" ->
           {OutReq(owner_workspace_id, "turn/start", bgtask.thread_id)}
      [] bgtask.pc = "archive" ->
           {OutReq(owner_workspace_id, "thread/archive", bgtask.thread_id)}
      [] OTHER -> {}

\* The threadId of the thread/start answer: result.threadId, else
\* result.thread.id.
started_thread_id(value) ==
    IF value.result.present /\ value.result.threadId \in Threads
    THEN value.result.threadId
    ELSE IF value.result.present /\ value.result.thread \in Threads
    THEN value.result.thread
    ELSE None

\* thread/start came back: Err, an "error" key or no thread id end the task; else
\* the callback is registered and turn/start comes next.
BackgroundThreadStarted ==
    /\ bgtask.pc = "thread_start"
    /\ call[1].pc = "done"
    /\ LET tid == IF call[1].ret = "value" /\ ~call[1].val.error
                  THEN started_thread_id(call[1].val) ELSE None
       IN IF tid = None
          THEN /\ bgtask' = [bgtask EXCEPT !.pc = "done", !.result = "error"]
               /\ UNCHANGED background_thread_callbacks
          ELSE /\ bgtask' = [bgtask EXCEPT !.pc = "turn_start", !.thread_id = tid]
               /\ background_thread_callbacks' =
                      insert_callback(background_thread_callbacks, tid, BackgroundSubscriber)
    /\ call' = [call EXCEPT ![1] = NewCall]
    /\ UNCHANGED <<resolver, login, cli>>
    /\ UNCHANGED <<next_id, pending, request_context, thread_workspace, workspace_ids,
                   workspace_roots, wire, chan, rpc, cur, locals, lines, emitted, bgsent,
                   delivered, issued, resp_carried, resp_bound, observed, reg_log,
                   inflight_at_eof, reg_task, connVars, busVars, hs, regVars, shellVars>>

\* turn/start came back: Err or an "error" key unregister the callback and go to
\* thread/archive; else the events are collected.
BackgroundTurnStarted ==
    /\ bgtask.pc = "turn_start"
    /\ call[1].pc = "done"
    /\ IF call[1].ret = "value" /\ ~call[1].val.error
       THEN /\ bgtask' = [bgtask EXCEPT !.pc = "collect"]
            /\ UNCHANGED background_thread_callbacks
       ELSE /\ bgtask' = [bgtask EXCEPT !.pc = "archive", !.result = "error"]
            /\ background_thread_callbacks' =
                   Del(background_thread_callbacks, bgtask.thread_id)
    /\ call' = [call EXCEPT ![1] = NewCall]
    /\ UNCHANGED <<resolver, login, cli>>
    /\ UNCHANGED <<next_id, pending, request_context, thread_workspace, workspace_ids,
                   workspace_roots, wire, chan, rpc, cur, locals, lines, emitted, bgsent,
                   delivered, issued, resp_carried, resp_bound, observed, reg_log,
                   inflight_at_eof, reg_task, connVars, busVars, hs, regVars, shellVars>>

\* The collection ends (turn/completed, turn/error, or the 60 s): the callback
\* is unregistered, then thread/archive is sent.
BackgroundCollected ==
    /\ bgtask.pc = "collect"
    /\ bgtask' = [bgtask EXCEPT !.pc = "archive"]
    /\ background_thread_callbacks' = Del(background_thread_callbacks, bgtask.thread_id)
    /\ UNCHANGED <<resolver, login, cli>>
    /\ UNCHANGED <<next_id, pending, request_context, thread_workspace, workspace_ids,
                   workspace_roots, wire, chan, call, rpc, cur, locals, lines, emitted,
                   bgsent, delivered, issued, resp_carried, resp_bound, observed,
                   reg_log, inflight_at_eof, reg_task, connVars, busVars, hs, regVars,
                   shellVars>>

\* thread/archive came back, whatever the answer.
BackgroundArchived ==
    /\ bgtask.pc = "archive"
    /\ call[1].pc = "done"
    /\ bgtask' = [bgtask EXCEPT !.pc = "done",
                                !.result = IF @ = None THEN "ok" ELSE @]
    /\ UNCHANGED <<resolver, login, cli, call>>
    /\ UNCHANGED <<sessionVars, connVars, busVars, hs, regVars, shellVars>>

\* ------------------------------------------------ desktop command layer
\* codex.rs: the Tauri commands that send a request to the agent of a
\* workspace.  AppState.sessions is one tokio Mutex over the map of all
\* workspaces' sessions.
MaxDesktopCalls == 2

DesktopCalls == 1..MaxDesktopCalls
DesktopWorkspaces == {"W1", "W2", "W3"}

\* The workspaces with a session in the map.
DesktopConnected == {"W1", "W2"}

DesktopCommands == {"start_thread", "send_user_message", "generate_commit_message"}

\* The method of the first request the command sends.
first_request(command) ==
    IF command = "send_user_message" THEN "turn/start" ELSE "thread/start"

NoHolder == 0

\* Whether the guard of state.sessions.lock().await is alive while the command
\* sends its request: start_thread (165-173) and send_user_message (301-366)
\* borrow the session from the guard, which lives to the end of the function;
\* generate_commit_message (910-916) clones the Arc in a block of its own.
holds_guard(command) == command \in {"start_thread", "send_user_message"}

DesktopIdle == [pc |-> "idle", command |-> None, ws |-> None, ret |-> None]

DesktopInit ==
    desktop = [lock |-> NoHolder, cmd |-> [k \in DesktopCalls |-> DesktopIdle],
               sent |-> <<>>]

\* state.sessions.lock().await and sessions.get(&workspace_id): the lock is
\* taken when it is free; without a session the command returns the error and
\* the guard is dropped.
CommandLookup(k, command, ws) ==
    /\ desktop.cmd[k].pc = "idle"
    /\ desktop.lock = NoHolder
    /\ desktop' =
         IF ws \notin DesktopConnected
         THEN [desktop EXCEPT !.cmd[k] = [pc |-> "done", command |-> command, ws |-> ws,
                                          ret |-> "workspace not connected"]]
         ELSE [desktop EXCEPT
                 !.lock = IF holds_guard(command) THEN k ELSE NoHolder,
                 !.cmd[k] = [pc |-> "send", command |-> command, ws |-> ws, ret |-> None]]
    /\ UNCHANGED tailscale
    /\ UNCHANGED shellRest

\* session.send_request(..): the request goes to the agent of the workspace.
CommandSend(k) ==
    /\ desktop.cmd[k].pc = "send"
    /\ desktop' = [desktop EXCEPT
            !.cmd[k].pc = "await",
            !.sent = Append(@, [ws |-> desktop.cmd[k].ws,
                                method |-> first_request(desktop.cmd[k].command)])]
    /\ UNCHANGED tailscale
    /\ UNCHANGED shellRest

\* The agent's response arrives: send_request returns, the command returns and
\* what it still holds is dropped.
CommandResponse(k) ==
    /\ desktop.cmd[k].pc = "await"
    /\ desktop' = [desktop EXCEPT
            !.cmd[k].pc = "done", !.cmd[k].ret = "value",
            !.lock = IF @ = k THEN NoHolder ELSE @]
    /\ UNCHANGED tailscale
    /\ UNCHANGED shellRest

\* ------------------------------------------------- tailscale daemon stop
\* tailscale/daemon_commands.rs and tailscale/rpc_client.rs.  What listens on
\* the configured port: nothing, a daemon without token, a daemon that wants
\* the token "secret", or a process that is no daemon.
MaxListenerChanges == 1

Listeners == {"none", "daemon", "token_daemon", "other"}

\* settings.remote_backend_token
RemoteTokens == {None, "secret", "wrong", " "}

\* token.map(str::trim).filter(|value| !value.is_empty())
trimmed_token(tok) == IF tok \in {None, " "} THEN None ELSE tok

\* send_and_expect_result(.., "ping", ..) on a connection to `listener`: Ok, or
\* Err with the daemon's message, or Err of another kind (no JSON, no result,
\* timeout, EOF).
ping_result(listener, authed) ==
    CASE listener = "daemon" -> "ok"
      [] listener = "token_daemon" -> IF authed THEN "ok" ELSE "unauthorized"
      [] OTHER -> "other error"

\* send_and_expect_result(.., "auth", {token}) on a connection to `listener`.
auth_result(listener, tok) ==
    CASE listener = "daemon" -> "ok"
      [] listener = "token_daemon" -> IF tok = "secret" THEN "ok" ELSE "invalid token"
      [] OTHER -> "other error"

\* rpc_client.rs 25-28
is_auth_error_message(message) == message \in {"unauthorized", "invalid token"}

Probe(kind, auth_ok, auth_error) == [kind |-> kind, auth_ok |-> auth_ok, auth_error |-> auth_error]
NotReachable == Probe("NotReachable", FALSE, None)
NotDaemon == Probe("NotDaemon", FALSE, None)
Running(auth_ok, auth_error) == Probe("Running", auth_ok, auth_error)
NotProbed == Probe("none", FALSE, None)

\* rpc_client.rs 93-166
probe_daemon(listener, tok) ==
    IF listener = "none" THEN NotReachable
    ELSE IF ping_result(listener, FALSE) = "ok" THEN Running(TRUE, None)
    ELSE IF ~is_auth_error_message(ping_result(listener, FALSE)) THEN NotDaemon
    ELSE IF trimmed_token(tok) = None THEN Running(FALSE, "requires token")
    ELSE LET auth == auth_result(listener, trimmed_token(tok)) IN
         IF auth = "ok"
         THEN IF ping_result(listener, TRUE) = "ok" THEN Running(TRUE, None)
              ELSE Running(FALSE, "ping failed after auth")
         ELSE IF is_auth_error_message(auth) THEN Running(FALSE, "authentication failed")
         ELSE NotDaemon

\* rpc_client.rs 168-212: the error the call returns before it sends
\* daemon_shutdown, or None when it gets that far.
shutdown_refused(listener, tok) ==
    IF listener = "none" THEN "failed to connect"
    ELSE LET ping == ping_result(listener, FALSE) IN
         IF ping = "ok" THEN None
         ELSE IF ~is_auth_error_message(ping) THEN "ping failed"
         ELSE IF trimmed_token(tok) = None THEN "requires token"
         ELSE IF auth_result(listener, trimmed_token(tok)) # "ok" THEN "authentication failed"
         ELSE None

\* (Variant: the stop goes for whatever answers on the port.)
attempts_shutdown_if_reachable(probe) == probe.kind # "NotReachable"

\* daemon_commands.rs 141: the arm DaemonProbe::Running.
attempts_shutdown(probe) == probe.kind = "Running"

Refusal == "port is in use by a non-daemon process; refusing to stop it"

TailscaleIdle(child, port, tok, listener) ==
    [pc |-> "idle", child |-> child, had_child |-> child, port |-> port, tok |-> tok,
     listener |-> listener, changes |-> 0, probe |-> NotProbed, issued |-> <<>>,
     stop_error |-> None, after |-> NotProbed, state |-> "unset", last_error |-> None]

TailscaleInit == tailscale = TailscaleIdle(FALSE, TRUE, None, "none")

\* The process on the port exits, or another one starts to listen there.
ListenerChanges(l) ==
    /\ tailscale.changes < MaxListenerChanges
    /\ tailscale.pc # "done"
    /\ l # tailscale.listener
    /\ tailscale' = [tailscale EXCEPT !.listener = l, !.changes = @ + 1]
    /\ UNCHANGED desktop
    /\ UNCHANGED shellRest

\* daemon_commands.rs 131-140: the child this app spawned is killed and
\* awaited; without one and with a port in the configured address the
\* listener is probed.
StopBegin ==
    /\ tailscale.pc = "idle"
    /\ IF tailscale.child
       THEN \E l \in {tailscale.listener, "none"} :
              tailscale' = [tailscale EXCEPT !.pc = "after", !.child = FALSE,
                                             !.issued = Append(@, "kill_child"),
                                             !.listener = l]
       ELSE IF ~tailscale.port
       THEN tailscale' = [tailscale EXCEPT !.pc = "after"]
       ELSE tailscale' = [tailscale EXCEPT
               !.pc = "probed",
               !.probe = probe_daemon(tailscale.listener, tailscale.tok)]
    /\ UNCHANGED desktop
    /\ UNCHANGED shellRest

\* daemon_commands.rs 141-175: for a running daemon request_daemon_shutdown;
\* when that fails the pid listening on the port is looked up and killed, when
\* it succeeds the daemon is awaited to go; for a process that is no daemon
\* the refusal; for nothing reachable nothing.
StopAct ==
    /\ tailscale.pc = "probed"
    /\ LET me == tailscale IN
       IF attempts_shutdown(me.probe)
       THEN LET refused == shutdown_refused(me.listener, me.tok)
                asked == [me EXCEPT !.pc = "after",
                                    !.issued = Append(@, "request_daemon_shutdown")]
            IN IF refused # None
               THEN \/ /\ me.listener # "none"
                       /\ \E killed_ok \in BOOLEAN :
                            tailscale' = [asked EXCEPT
                               !.issued = Append(@, "kill_pid"),
                               !.listener = IF killed_ok THEN "none" ELSE @,
                               !.stop_error = IF killed_ok THEN None ELSE "kill failed"]
                    \/ tailscale' = [asked EXCEPT !.stop_error = refused]
               ELSE \E gone \in BOOLEAN, answered \in BOOLEAN :
                      IF ~answered
                      THEN \/ /\ me.listener # "none"
                              /\ \E killed_ok \in BOOLEAN :
                                   tailscale' = [asked EXCEPT
                                      !.issued = Append(@, "kill_pid"),
                                      !.listener = IF killed_ok THEN "none" ELSE @,
                                      !.stop_error = IF killed_ok THEN None
                                                     ELSE "kill failed"]
                           \/ tailscale' = [asked EXCEPT
                                              !.stop_error = "shutdown request failed"]
                      ELSE tailscale' = [asked EXCEPT
                              !.listener = IF gone THEN "none" ELSE @,
                              !.stop_error = IF gone THEN None ELSE "still reachable"]
       ELSE IF me.probe.kind = "NotDaemon"
       THEN tailscale' = [me EXCEPT !.pc = "after", !.stop_error = Refusal]
       ELSE tailscale' = [me EXCEPT !.pc = "after"]
    /\ UNCHANGED desktop
    /\ UNCHANGED shellRest

\* daemon_commands.rs 177-216: the probe after the stop attempt decides the
\* status that is stored and returned.
StopFinish ==
    /\ tailscale.pc = "after"
    /\ LET me == tailscale
           probe_after_stop == probe_daemon(me.listener, me.tok)
       IN tailscale' = [me EXCEPT
              !.pc = "done",
              !.after = probe_after_stop,
              !.state = IF probe_after_stop.kind = "NotReachable" THEN "Stopped"
                        ELSE "Error",
              !.last_error =
                 CASE probe_after_stop.kind = "Running" ->
                        IF me.stop_error # None THEN me.stop_error
                        ELSE IF probe_after_stop.auth_error # None
                        THEN probe_after_stop.auth_error
                        ELSE "still running after stop attempt"
                   [] probe_after_stop.kind = "NotDaemon" ->
                        IF me.stop_error # None THEN me.stop_error
                        ELSE "port now occupied by a non-daemon process"
                   [] OTHER -> me.stop_error]
    /\ UNCHANGED desktop
    /\ UNCHANGED shellRest

CoreInit == ResolverInit /\ LoginInit /\ CliInit /\ BackgroundInit

ShellInit == DesktopInit /\ TailscaleInit

DaemonInit == BusInit /\ HandshakeInit /\ RegistryInit /\ CoreInit /\ ShellInit

\* ------------------------------------------------------- specifications
Init == SessionInit /\ ConnInitWith("secret") /\ DaemonInit

\* Spec: the session under request traffic.  MaxCalls concurrent callers, the
\* reader with the agent's answers to them, and the agent's exit.
Next ==
    \/ \E c \in Calls : ReqAlloc(c, OutReqs)
    \/ \E c \in Calls : ReqRegister(c)
    \/ \E c \in Calls : ReqInsertPending(c)
    \/ \E c \in Calls : ReqInsertContext(c)
    \/ \E c \in Calls : ReqBindThread(c)
    \/ \E c \in Calls : ReqWrite(c)
    \/ \E c \in Calls : ReqRemovePending(c)
    \/ \E c \in Calls : ReqRemoveContext(c)
    \/ \E c \in Calls : ReqAwaitReady(c)
    \/ \E c \in Calls : ReqAwaitTimeout(c)
    \/ ReadLine(RequestTraffic, MaxLines)
    \/ ReaderPopContext
    \/ ReaderBindThread
    \/ ReaderRoute
    \/ ReaderDeliver
    \/ ReaderEOF
    \/ ReaderSweepPending
    \/ ReaderSweepContext

Spec == Init /\ [][Next]_vars

\* RouteSpec: one caller, the answers to it and the agent's messages about the
\* thread the answer names.
RouteCalls == 1..MaxRouteCalls

RouteNext ==
    \/ \E c \in RouteCalls : ReqAlloc(c, RouteReqs)
    \/ \E c \in RouteCalls : ReqRegister(c)
    \/ \E c \in RouteCalls : ReqInsertPending(c)
    \/ \E c \in RouteCalls : ReqInsertContext(c)
    \/ \E c \in RouteCalls : ReqBindThread(c)
    \/ \E c \in RouteCalls : ReqWrite(c)
    \/ \E c \in RouteCalls : ReqRemovePending(c)
    \/ \E c \in RouteCalls : ReqRemoveContext(c)
    \/ \E c \in RouteCalls : ReqAwaitReady(c)
    \/ \E c \in RouteCalls : ReqAwaitTimeout(c)
    \/ ReadLine(RouteTraffic, MaxRouteLines)
    \/ ReaderPopContext
    \/ ReaderBindThread
    \/ ReaderListRoots
    \/ ReaderListInsert
    \/ ReaderRoute
    \/ ReaderArchive
    \/ ReaderDeliver
    \/ ReaderCallbacks

RouteSpec == Init /\ [][RouteNext]_vars

\* EventSpec: the session under notification traffic, with workspaces and
\* background subscribers being registered and unregistered meanwhile, and one
\* request that binds the thread to a second workspace.
EventCalls == 1..MaxEventCalls

EventNext ==
    \/ \E c \in EventCalls : ReqAlloc(c, EventReqs)
    \/ \E c \in EventCalls : ReqRegister(c)
    \/ \E c \in EventCalls : ReqInsertPending(c)
    \/ \E c \in EventCalls : ReqInsertContext(c)
    \/ \E c \in EventCalls : ReqBindThread(c)
    \/ \E c \in EventCalls : ReqWrite(c)
    \/ \E c \in EventCalls : ReqRemovePending(c)
    \/ \E c \in EventCalls : ReqRemoveContext(c)
    \/ \E c \in EventCalls : ReqAwaitTimeout(c)
    \/ ReadLine(EventTraffic, MaxEventLines)
    \/ ReaderRoute
    \/ ReaderCallbacks
    \/ ReaderSnapshot
    \/ \E path \in RegisterPaths : RegisterWorkspaceWithPath("W2", path)
    \/ \E w \in Workspaces : UnregisterWorkspace(w)
    \/ RegisterRoots
    \/ \E sub \in Subscribers : RegisterCallback("T1", sub)
    \/ UnregisterCallback("T1")

EventSpec == Init /\ [][EventNext]_vars

ConnInit == SessionInit /\ DaemonInit /\ \E t \in TokenConfigs : ConnInitWith(t)

ConnNext == ClientLineRead \/ ClientHandlerReturn \/ WriteTaskWrite \/ ClientEOF

ConnSpec == ConnInit /\ [][ConnNext]_vars

\* BroadcastSpec: two connections of the daemon and the broadcast channel, with
\* the sessions emitting events.
BroadcastNext ==
    \/ \E c \in BConns : Subscribe(c)
    \/ EmitAgentEvent
    \/ \E c \in BConns : ForwardEvents(c)
    \/ \E c \in BConns : SocketWrite(c)
    \/ \E c \in BConns : CloseConnection(c)

BroadcastSpec == Init /\ [][BroadcastNext]_vars

\* HandlerSpec: one connection of the daemon with its add_workspace requests,
\* its forwarder and its write task, and the sessions emitting events.
HandlerNext ==
    \/ Subscribe(1)
    \/ EmitAgentEvent
    \/ ForwardEvents(1)
    \/ SocketWrite(1)
    \/ AddWorkspaceStart(1)
    \/ AddWorkspaceConnected(1)
    \/ AddWorkspaceFailed(1)
    \/ AddWorkspaceRespond(1)
    \/ CloseConnection(1)

HandlerSpec == Init /\ [][HandlerNext]_vars

\* HandshakeSpec: spawn_workspace_session's handshake with the agent.
HandshakeNext ==
    \/ ReqAlloc(1, InitializeReqs)
    \/ ReqRegister(1)
    \/ ReqInsertPending(1)
    \/ ReqInsertContext(1)
    \/ ReqWrite(1)
    \/ ReqRemovePending(1)
    \/ ReqRemoveContext(1)
    \/ ReqAwaitReady(1)
    \/ HandshakeExpire
    \/ HandshakeReply
    \/ HandshakeNotify
    \/ ReadLine(HandshakeTraffic, MaxHandshakeLines)
    \/ ReaderPopContext
    \/ ReaderDeliver
    \/ ReaderEOF
    \/ ReaderSweepPending
    \/ ReaderSweepContext

HandshakeSpec == Init /\ [][HandshakeNext]_vars

\* RegistrySpec: two connections calling add_workspace, add_worktree,
\* remove_workspace, remove_worktree and rename_worktree.
RegistryNext ==
    \/ \E t \in Tasks : AddWorkspaceBegin(t)
    \/ \E t \in Tasks : AddWorktreeBegin(t)
    \/ \E t \in Tasks : AddWorktreeGit(t)
    \/ \E t \in Tasks : AddFinish(t)
    \/ \E t \in Tasks : RemoveWorkspaceBegin(t)
    \/ \E t \in Tasks : RemoveWorkspaceChild(t)
    \/ \E t \in Tasks : RemoveWorkspaceFinish(t)
    \/ \E t \in Tasks : RemoveWorktreeBegin(t)
    \/ \E t \in Tasks : RemoveWorktreeFinish(t)
    \/ \E t \in Tasks : RenameWorktreeBegin(t)
    \/ \E t \in Tasks : RenameWorktreeGit(t)
    \/ \E t \in Tasks : RenameWorktreeMove(t)
    \/ \E t \in Tasks : RenameWorktreeRevert(t)
    \/ \E t \in Tasks : RenameWorktreeRespawn(t)

RegistrySpec == Init /\ [][RegistryNext]_vars

\* SettingsSpec: two connections calling connect_workspace,
\* update_workspace_settings, update_workspace_codex_bin and rename_worktree.
SettingsNext ==
    \/ \E t \in Tasks : ConnectWorkspaceBegin(t)
    \/ \E t \in Tasks : ConnectWorkspaceSpawn(t)
    \/ \E t \in Tasks : UpdateSettingsBegin(t)
    \/ \E t \in Tasks : UpdateSettingsSpawn(t)
    \/ \E t \in Tasks : UpdateSettingsChildSpawn(t)
    \/ \E t \in Tasks : UpdateWorkspaceCodexBin(t)
    \/ \E t \in Tasks : RenameWorktreeBegin(t)
    \/ \E t \in Tasks : RenameWorktreeGit(t)
    \/ \E t \in Tasks : RenameWorktreeMove(t)
    \/ \E t \in Tasks : RenameWorktreeRevert(t)
    \/ \E t \in Tasks : RenameWorktreeRespawn(t)

SettingsSpec == Init /\ [][SettingsNext]_vars

\* The resolver alone: the paths, the map order and the cwd are drawn at the
\* start, then registration, the two lookups and the two normalizations run.
PathInit ==
    /\ SessionInit /\ ConnInitWith("secret")
    /\ BusInit /\ HandshakeInit /\ RegistryInit /\ ShellInit
    /\ ResolverInputs /\ LoginInit /\ CliInit /\ BackgroundInit

PathNext ==
    \/ \E w \in RootIds : ResolverRegister(w)
    \/ ResolverResolve
    \/ ResolverResolveAlt
    \/ ResolverNormalize
    \/ ResolverNormalizeAgain

PathSpec == PathInit /\ [][PathNext]_vars

\* The login state machine alone: logins and cancels of two workspaces.
LoginSpecInit ==
    /\ SessionInit /\ ConnInitWith("secret")
    /\ BusInit /\ HandshakeInit /\ RegistryInit /\ ShellInit
    /\ ResolverInit /\ CliInit /\ BackgroundInit
    /\ \E connected \in SUBSET LoginWorkspaces : LoginStateInit(connected)

LoginNext ==
    \/ \E k \in LoginCalls, ws \in LoginWorkspaces : LoginBegin(k, ws)
    \/ \E k \in LoginCalls, elapsed \in BOOLEAN : LoginPoll(k, elapsed)
    \/ \E k \in LoginCalls, r \in StartReplies : LoginReply(k, r)
    \/ \E k \in LoginCalls : LoginWait(k)
    \/ \E k \in CancelCalls, ws \in LoginWorkspaces : CancelBegin(k, ws)
    \/ \E k \in CancelCalls, r \in CancelReplies : CancelReply(k, r)
    \/ \E ws \in LoginWorkspaces : LoginDisconnect(ws)

LoginSpec == LoginSpecInit /\ [][LoginNext]_vars

\* The daemon's start alone: every command line of up to MaxArgs words.
CliSpecInit ==
    /\ SessionInit /\ ConnInitWith("secret")
    /\ BusInit /\ HandshakeInit /\ RegistryInit /\ ShellInit
    /\ ResolverInit /\ LoginInit /\ BackgroundInit
    /\ CliInputs

CliNext ==
    \/ CliParse
    \/ CliMain

CliSpec == CliSpecInit /\ [][CliNext]_vars

\* The lines of ExtractSpec: a notification whose "params" and "result" are
\* missing or hold each of threadId, thread_id and thread.id as missing, not a
\* string, or one of two thread ids.
MaxExtractLines == 1

ExtractValues == {Absent, NonString, "T1", "T2"}

ExtractContainers ==
    {AbsentObj} \cup {Container(a, b, c) : a \in ExtractValues, b \in ExtractValues,
                                           c \in ExtractValues}

ExtractTraffic ==
    {Msg(NoId, "turn/started", p, r, FALSE, <<>>) :
        p \in ExtractContainers, r \in ExtractContainers}

\* ExtractSpec: the reader alone, under every such line.
ExtractNext ==
    \/ ReadLine(ExtractTraffic, MaxExtractLines)
    \/ ReaderRoute
    \/ ReaderCallbacks

ExtractSpec == Init /\ [][ExtractNext]_vars

\* The session with one generate_commit_message task: its three requests, in
\* turn, the reader and the agent's lines.
BackgroundSpecInit ==
    /\ SessionInit /\ ConnInitWith("secret")
    /\ BusInit /\ HandshakeInit /\ RegistryInit /\ ShellInit
    /\ ResolverInit /\ LoginInit /\ CliInit
    /\ bgtask = BackgroundTask("thread_start")

BackgroundNext ==
    \/ ReqAlloc(1, BackgroundRequests)
    \/ ReqRegister(1)
    \/ ReqInsertPending(1)
    \/ ReqInsertContext(1)
    \/ ReqBindThread(1)
    \/ ReqWrite(1)
    \/ ReqRemovePending(1)
    \/ ReqRemoveContext(1)
    \/ ReqAwaitReady(1)
    \/ ReqAwaitTimeout(1)
    \/ ReadLine(BackgroundTraffic, MaxBackgroundLines)
    \/ ReaderPopContext
    \/ ReaderBindThread
    \/ ReaderRoute
    \/ ReaderDeliver
    \/ ReaderCallbacks
    \/ BackgroundThreadStarted
    \/ BackgroundTurnStarted
    \/ BackgroundCollected
    \/ BackgroundArchived

BackgroundSpec == BackgroundSpecInit /\ [][BackgroundNext]_vars

\* ================================================================ claims
AllCalls == {c \in Calls : call[c].id # NoId}

Returned(c) == call[c].pc = "done"

ReturnKinds == {"value", "timed out", "request canceled", "write error"}

\* C1: each request slot is resolved at most once (the reader takes a slot out
\* of `pending` and sends on it at most once per id, also when the agent
\* answers an id twice or late), request ids are not shared, and each call
\* that returned returned exactly one of: the response value sent for its own
\* id, the timeout error, "request canceled", or the write error.
C1_ResolvedAtMostOnce ==
    /\ \A i \in DOMAIN delivered : delivered[i] <= 1
    /\ \A c, d \in AllCalls : c # d => call[c].id # call[d].id
    /\ \A c \in Calls :
         IF Returned(c)
         THEN /\ call[c].ret \in ReturnKinds
              /\ call[c].ret = "value" =>
                    /\ call[c].val.ok
                    /\ maybe_id(call[c].val) = call[c].id
                    /\ delivered[call[c].id] = 1
              /\ call[c].ret # "value" => call[c].val = NoMsg
         ELSE call[c].ret = None

\* A call returned the first answer to its id and the reader has since
\* processed a second, different message with the same id.
C1_Witness ==
    \E c \in Calls :
        /\ Returned(c)
        /\ call[c].ret = "value"
        /\ lines = MaxLines
        /\ rpc = "idle"
        /\ maybe_id(cur) = call[c].id
        /\ cur # call[c].val

\* The reader has finished with `cur`, a message with a method and no
\* result/error that carries a thread id.
ThreadEventDone ==
    /\ cur.ok
    /\ is_event(cur)
    /\ extract_thread_id(cur) # None
    /\ rpc = "idle"

\* C2 (as stated): once a response to a request issued for workspace W has
\* carried thread id T, every later notification or agent request carrying T is
\* emitted with workspace id W, until a thread/archived for T has been
\* processed or something else re-binds T.
C2_Original ==
    (ThreadEventDone /\ observed.carried # None) =>
        \A i \in 1..Len(emitted) : emitted[i].workspace_id = observed.carried

\* C2 (amended): once the reader has matched a response carrying thread id T to
\* the context of a request issued for workspace W (the request had not timed
\* out, failed or been answered before), T stays bound to W until a
\* thread/archived for T has been processed or another request or a
\* thread/list result re-binds it, and every notification or agent request
\* carrying T that is routed meanwhile is emitted with workspace id W and its
\* own message; so is the thread/archived message itself.
C2_RoutedToBoundWorkspace ==
    /\ \A t \in DOMAIN resp_bound : Get(thread_workspace, t) = resp_bound[t]
    /\ (ThreadEventDone /\ observed.bound # None) =>
          \A i \in 1..Len(emitted) :
              emitted[i] = Event(observed.bound, cur)

\* A thread/archived notification for a thread that a response bound to the
\* second workspace has been emitted with that workspace id, and the binding is
\* gone.
C2_Witness ==
    /\ ThreadEventDone
    /\ method_name(cur) = "thread/archived"
    /\ observed.bound = "W2"
    /\ emitted = <<Event("W2", cur)>>
    /\ extract_thread_id(cur) \notin DOMAIN thread_workspace

\* The subscriber registered for thread t according to the registry operations
\* so far: the one of the latest registration, if no removal followed it.
Registered(t) ==
    LET ops == {i \in DOMAIN reg_log :
                  /\ reg_log[i].op \in {"callback_insert", "callback_remove"}
                  /\ reg_log[i].key = t}
        last == CHOOSE i \in ops : \A j \in ops : j <= i
    IN IF ops = {} \/ reg_log[last].op = "callback_remove" THEN None
       ELSE reg_log[last].val

\* C3: while a subscriber is registered for thread T, a message with a method
\* and no result/error that carries T, with or without an id, goes to that
\* subscriber when the reader finishes with it, and no event is emitted; after a
\* second registration for T that subscriber is the second one.  Every such
\* message ends at exactly one destination.
C3_SubscriberGetsThreadEvents ==
    /\ [](ThreadEventDone => Len(bgsent) + Len(emitted) = 1)
    /\ [][(/\ cur.ok /\ is_event(cur) /\ extract_thread_id(cur) # None
           /\ rpc # "idle" /\ rpc' = "idle"
           /\ Registered(extract_thread_id(cur)) # None)
          => /\ bgsent' = <<[subscriber |-> Registered(extract_thread_id(cur)),
                             message |-> cur]>>
             /\ emitted' = <<>>]_vars

\* After two registrations for the thread, an agent request (a message with id
\* and method) about it went to the second subscriber and not to the sink.
C3_Witness ==
    /\ ThreadEventDone
    /\ maybe_id(cur) # NoId
    /\ reg_log = <<RegOp("callback_insert", "T1", "S1"),
                   RegOp("callback_insert", "T1", "S2")>>
    /\ bgsent = <<[subscriber |-> "S2", message |-> cur]>>
    /\ emitted = <<>>

\* The reader has finished with `cur`, a notification (method, no id).
NotificationDone ==
    /\ cur.ok
    /\ is_event(cur)
    /\ maybe_id(cur) = NoId
    /\ rpc = "idle"

GlobalNoThread(m) ==
    is_global_workspace_notification(method_name(m)) /\ extract_thread_id(m) = None

\* The routed workspace id of `cur`: the binding of its thread id at the routing
\* step, else the owner workspace.
RoutedId == IF observed.binding # None THEN observed.binding ELSE owner_workspace_id

\* One event per workspace id of the snapshot, each with `cur`, none repeated.
FannedOut ==
    /\ observed.snapshot_taken
    /\ Len(emitted) = Cardinality(observed.attached)
    /\ {emitted[i].workspace_id : i \in 1..Len(emitted)} = observed.attached
    /\ \A i \in 1..Len(emitted) : emitted[i].message = cur

\* C4 (as stated): a notification with an account-level method and no thread id
\* gives exactly one event per workspace id attached at that moment, same
\* message, none repeated; every other notification gives exactly one event,
\* on the routed workspace id.
C4_Original ==
    NotificationDone =>
        IF GlobalNoThread(cur) THEN FannedOut
        ELSE emitted = <<Event(RoutedId, cur)>>

\* C4 (amended): a notification that went to a background subscriber of its
\* thread gives no event.  Otherwise: with an account-level method and no thread
\* id it gives one event per workspace id attached at that moment, same message,
\* none repeated, and when no workspace id is attached one event on the owner
\* workspace; any other notification gives exactly one event, on the routed
\* workspace id.
C4_FanOut ==
    NotificationDone =>
        IF bgsent # <<>> THEN emitted = <<>> /\ extract_thread_id(cur) # None
        ELSE IF GlobalNoThread(cur)
        THEN IF observed.snapshot_taken /\ observed.attached = {}
             THEN emitted = <<Event(owner_workspace_id, cur)>>
             ELSE FannedOut
        ELSE emitted = <<Event(RoutedId, cur)>>

\* An account-level notification without thread id was fanned out to two
\* attached workspaces.
C4_Witness ==
    /\ NotificationDone
    /\ GlobalNoThread(cur)
    /\ observed.attached = {"W1", "W2"}
    /\ Len(emitted) = 2
    /\ emitted[1].workspace_id # emitted[2].workspace_id

\* C5 (as stated): after the reader met EOF, every request that was in flight
\* then returns "request canceled", and once the sweep is over pending and
\* request_context are empty and stay empty.
C5_Original ==
    /\ \A c \in Calls :
          (Returned(c) /\ call[c].id \in inflight_at_eof) =>
              call[c].ret = "request canceled"
    /\ rpc = "ended" => (pending = {} /\ request_context = EmptyMap)

\* The reader is at a step of its pass over `cur`.
InPass == \E i \in DOMAIN ReaderSteps : ReaderSteps[i] = rpc

\* C6: a call whose timer fired returns the timeout error, and from then on its
\* id is in neither pending nor request_context; the reader's pass over a
\* response read after that return takes no slot, sends nothing, binds no
\* thread, and emits nothing.
C6_TimeoutThenLateResponse ==
    /\ [](\A c \in Calls :
            /\ (Returned(c) /\ chan[call[c].id].st = "dropped") =>
                  call[c].ret = "timed out"
            /\ (Returned(c) /\ call[c].ret = "timed out") =>
                  /\ call[c].id \notin pending
                  /\ call[c].id \notin DOMAIN request_context)
    /\ [](observed.late => (emitted = <<>> /\ bgsent = <<>>))
    /\ [][(observed.late /\ InPass /\ rpc' # rpc) =>
            /\ pending' = pending
            /\ request_context' = request_context
            /\ chan' = chan
            /\ delivered' = delivered
            /\ thread_workspace' = thread_workspace]_vars

\* A response carrying a thread id was read after its request had returned the
\* timeout error; the reader is done with it and the thread is not bound.
C6_Witness ==
    /\ observed.late
    /\ rpc = "idle"
    /\ is_response(cur)
    /\ extract_thread_id(cur) = "T1"
    /\ "T1" \notin DOMAIN thread_workspace
    /\ emitted = <<>>
    /\ \E c \in Calls : /\ call[c].id = maybe_id(cur)
                        /\ call[c].ret = "timed out"
                        /\ delivered[call[c].id] = 0

Quiescent ==
    /\ rpc \in {"idle", "ended"}
    /\ \A c \in Calls : call[c].pc \in {"start", "await", "done"}

\* C8 (as stated): once the reader has finished with a message and the calls
\* that were cleaning up have returned, a request id is in pending if and only
\* if it is in request_context.
C8_Original ==
    Quiescent => pending = DOMAIN request_context

\* The responses sent on out_tx for line k of the connection, and those of
\* them the write task has written to the socket.
Answers(k) == SelectSeq(out_tx, LAMBDA r : r.line = k)
WrittenAnswers(k) == SelectSeq(SubSeq(out_tx, 1, written), LAMBDA r : r.line = k)

\* Line l is an auth request that carries token t: its params are the string t
\* or an object whose "token" is the string t.
CarriesToken(l, t) ==
    /\ l.ok
    /\ l.method = "auth"
    /\ l.params.kind \in {"string", "object"}
    /\ l.params.token = t

\* Before line k, the connection was authenticated: no token is configured, or
\* an earlier line was an auth request carrying the configured token.
AuthBefore(k) ==
    \/ token = None
    \/ \E j \in 1..(k - 1) : j \in DOMAIN conn_in /\ CarriesToken(conn_in[j], token)

\* The response the gate gives line l, read before authentication.
GateAnswer(l, k) ==
    IF l.id = NoId THEN <<>>
    ELSE IF l.method # "auth" THEN <<ClientResponse(l.id, "error", "unauthorized", k)>>
    ELSE IF CarriesToken(l, token) THEN <<ClientResponse(l.id, "result", "ok:true", k)>>
    ELSE <<ClientResponse(l.id, "error", "invalid token", k)>>

HandledLines == {handled[i] : i \in DOMAIN handled}

\* C9: with a token configured, a line read before any auth request carrying
\* that token never reaches handle_rpc_request, and the only response issued
\* for it is error "unauthorized" when its method is not auth, error "invalid
\* token" when it is auth with a wrong or missing token, and result {ok:true}
\* when it carries the token; the connection is authenticated exactly from the
\* first such auth request on, and from the start when no token is configured;
\* what is read after that goes to the handler.
C9_AuthGate ==
    /\ authenticated = AuthBefore(Len(conn_in) + 1)
    /\ \A k \in DOMAIN conn_in :
          conn_in[k].ok =>
              IF AuthBefore(k)
              THEN k \in HandledLines
              ELSE /\ k \notin HandledLines
                   /\ Answers(k) = GateAnswer(conn_in[k], k)
    /\ \A k \in DOMAIN conn_in : ~conn_in[k].ok => (k \notin HandledLines /\ Answers(k) = <<>>)

\* With a token configured, a client sent a request, then an auth request with
\* a wrong token, then one with the right token: no handler ran.
C9_Witness ==
    /\ token = "secret"
    /\ Len(conn_in) = 3
    /\ conn_in[1].method = "ping"
    /\ ~CarriesToken(conn_in[2], token) /\ conn_in[2].method = "auth"
    /\ authenticated
    /\ handled = <<>>
    /\ [i \in 1..Len(out_tx) |-> out_tx[i].body] = <<"unauthorized", "invalid token", "ok:true">>

\* C10 (as stated): when the connection is over and the socket took every
\* write, every request line with an id has been answered on the socket with
\* exactly one response, with the same id, holding result or error; a line
\* without id has not been answered.
C10_Original ==
    (conn_pc = "closed" /\ writer # "broken") =>
        \A k \in DOMAIN conn_in :
            IF conn_in[k].ok /\ conn_in[k].id # NoId
            THEN /\ Len(WrittenAnswers(k)) = 1
                 /\ WrittenAnswers(k)[1].id = conn_in[k].id
                 /\ WrittenAnswers(k)[1].field \in {"result", "error"}
            ELSE WrittenAnswers(k) = <<>>

\* ---------------------------------------------------------------- C11
\* C11 (as stated): handlers of one connection run concurrently; while the
\* handler of a request is still running and the client has another line to
\* send, the connection's reader can read that line and start its handler.
C11_Original ==
    (conn_pc = "handler" /\ Len(conn_in) < MaxConnLines) => ENABLED ClientLineRead

\* ---------------------------------------------------------------- C12
EventsOf(c) == SelectSeq(outq[c], LAMBDA m : m.type = "event")
EventNumbers(c) == {EventsOf(c)[i].n : i \in DOMAIN EventsOf(c)}

\* C12: the events queued for (and so written to) a connection are events of
\* the sink, each once and in emission order; a receiver loses only events the
\* channel no longer retained for it, and after lagging it goes on with the
\* oldest retained event; its forwarder stops only when its write task or the
\* connection has ended; the sink can always emit.  Every serializable event
\* between a connection's subscription and its receiver's position is queued
\* for it, lost by its own lag, or the one whose send found the write task gone.
C12_BroadcastSubsequence ==
    /\ Len(bus) < MaxBusEvents => ENABLED EmitAgentEvent
    /\ \A c \in BConns :
         LET ev == EventsOf(c) IN
         /\ \A i \in DOMAIN ev :
              /\ ev[i].n \in 1..Len(bus)
              /\ ev[i] = EventNotification(bus[ev[i].n])
              /\ i > 1 => ev[i - 1].n < ev[i].n
         /\ subs[c].st = "ended" => sock[c].st # "running"
         /\ (subs[c].st = "running" /\ subs[c].pos < Len(bus)) => ENABLED ForwardEvents(c)
         /\ \A n \in lost[c] : n <= overwritten(Len(bus))
         /\ subs[c].pos >= subs[c].from
         /\ \A n \in (subs[c].from + 1) .. subs[c].pos :
              bus[n].ser => \/ n \in EventNumbers(c)
                            \/ n \in lost[c]
                            \/ subs[c].st = "ended" /\ n = subs[c].pos

\* Connection 1 lagged, lost the first event and then got a later one, while
\* connection 2 got the event connection 1 lost.
C12_Witness ==
    /\ 1 \in lost[1]
    /\ \E n \in EventNumbers(1) : n > 1
    /\ 1 \in EventNumbers(2)
    /\ sock[1].written > 0

\* ---------------------------------------------------------------- C13
\* C13 (as stated): the successful response to an add_workspace request stands,
\* in the connection's outgoing messages, after the codex/connected event its
\* handler emitted.
C13_Original ==
    \A c \in BConns : \A j \in DOMAIN outq[c] :
       (outq[c][j].type = "response" /\ outq[c][j].body = "result")
          => \E i \in 1..(j - 1) : outq[c][i] = EventNotification(bus[outq[c][j].n])

\* ---------------------------------------------------------------- C14
InLog(x) == \E i \in DOMAIN hs.log : hs.log[i] = x

\* The initialize request failed: no reply in time, a canceled request, a
\* write error, or a reply that carries an error.
InitializeFailed ==
    /\ call[1].pc = "done"
    /\ call[1].ret # "value" \/ call[1].val.error

\* C14 (as stated): initialized is written and codex/connected emitted only
\* after a successful initialize reply, in this order; when initialize failed
\* (no reply within 15 s, an error reply, a canceled request) no codex/connected
\* is emitted and no session is returned; on expiry the child is killed.
C14_Original ==
    /\ InLog("initialized") => hs.log = <<"reply", "initialized", "connected">>
    /\ InLog("connected") => hs.log = <<"reply", "initialized", "connected">>
    /\ (hs.pc = "done" /\ InitializeFailed) => (~InLog("connected") /\ hs.result # "session")
    /\ (call[1].pc = "done" /\ call[1].ret = "elapsed") => hs.child = "killed"

\* ---------------------------------------------------------------- C15
\* C15 (as stated): in every state of the registry each worktree entry names
\* as parent an entry of the map that is a main workspace and carries its
\* worktree metadata, and no main entry names a parent.
C15_Original ==
    \A i \in DOMAIN workspaces :
       LET e == workspaces[i] IN
       /\ e.kind = "worktree" =>
            /\ e.parent_id \in DOMAIN workspaces
            /\ workspaces[e.parent_id].kind = "main"
            /\ e.branch # None
       /\ e.kind = "main" => e.parent_id = None

\* ---------------------------------------------------------------- C16
\* The step in which task t's remove_workspace call on a main workspace returns
\* after its pass over the children.
RemoveWorkspaceReturns(t) ==
    /\ task[t].op = "remove_workspace"
    /\ task[t].pc = "children"
    /\ task'[t].pc = "idle"

ChildIds(t) == {e.id : e \in task[t].children}

C17_Original ==
    /\ \A i, j \in DOMAIN workspaces :
         workspaces[i].path = workspaces[j].path => i = j
    /\ \A i \in DOMAIN workspaces : workspaces[i].path # <<>>

\* ---------------------------------------------------------------- C18
MutationHandlers ==
    {"add_workspace", "add_worktree", "remove_workspace", "remove_worktree",
     "rename_worktree", "update_workspace_settings", "update_workspace_codex_bin"}

\* C18: when a mutation handler returned success, the persisted list was equal
\* to the map in memory at that moment (as claimed; `equal` is taken in the
\* step of the return).
C18_Original ==
    \A t \in Tasks :
       (/\ task[t].pc = "idle"
        /\ task[t].op \in MutationHandlers
        /\ task[t].ret = "ok") => task[t].equal

\* ---------------------------------------------------------------- C19
\* The step in which the replacement session of task t's
\* update_workspace_settings call fails to come up.
TargetSpawnFails(t) ==
    /\ task[t].op = "update_workspace_settings"
    /\ task[t].pc = "spawn"
    /\ task'[t] # task[t]
    /\ alloc'.session = alloc.session

\* The step in which the call stores the new settings and starts to wait for
\* the replacement session.
TargetSpawnAwaited(t) ==
    /\ task[t].pc = "idle"
    /\ task'[t].op = "update_workspace_settings"
    /\ task'[t].pc = "spawn"

\* C19: when the replacement session of the target fails to spawn, the call
\* returns the error, the record has the settings it had before the call, the
\* call has persisted nothing, and in neither of its two steps has it changed
\* the sessions map or killed a session.
C19_SpawnFailureRollsBack ==
    [][\A t \in Tasks :
       /\ TargetSpawnAwaited(t) =>
            persisted' = persisted /\ sessions' = sessions /\ killed' = killed
       /\ TargetSpawnFails(t) =>
         LET st == task[t]
             rt == task'[t] IN
         /\ rt.pc = "idle" /\ rt.ret = "err"
         /\ st.id \in DOMAIN workspaces'
         /\ workspaces'[st.id].settings = st.prev.settings
         /\ ~rt.wrote /\ persisted' = persisted
         /\ sessions' = sessions /\ killed' = killed
    ]_vars

\* A call on a connected workspace returned the spawn error: the record is the
\* previous one, which differs from the one the call had stored, and the
\* session the workspace had is registered.
C19_Witness ==
    \E t \in Tasks :
       LET st == task[t] IN
       /\ st.op = "update_workspace_settings" /\ st.pc = "idle" /\ st.ret = "err"
       /\ st.spawns = 1 /\ st.was_connected
       /\ st.prev # st.entry
       /\ st.id \in DOMAIN workspaces /\ workspaces[st.id] = st.prev
       /\ st.id \in DOMAIN sessions /\ sessions[st.id] = st.old_session
       /\ st.old_session \notin killed

\* ---------------------------------------------------------------- C20
\* The calls of update_workspace_settings that found their workspace, in
\* progress or returned.
UpdateSettingsCalls ==
    {t \in Tasks : task[t].op = "update_workspace_settings" /\ task[t].prev # NoEntry}

\* The resolved CODEX_HOME or the resolved arguments of the call's workspace
\* differ between its previous and its new settings.
resolved_changed(st) ==
    \/ resolve_workspace_codex_home(st.prev, st.parent)
         # resolve_workspace_codex_home(st.entry, st.parent)
    \/ resolve_workspace_codex_args(st.prev, st.parent)
         # resolve_workspace_codex_args(st.entry, st.parent)

\* C20: update_workspace_settings spawns a replacement session for its
\* workspace exactly when a session was running for it and its resolved
\* CODEX_HOME or its resolved arguments differ between the previous and the new
\* settings (as claimed).
C20_Original ==
    \A t \in UpdateSettingsCalls :
       (task[t].spawns = 1) <=> (task[t].was_connected /\ resolved_changed(task[t]))

\* ---------------------------------------------------------------- C21
\* C21: while add_worktree opens the session of the new worktree, the worktree's
\* entry is in the map and in the persisted list (as claimed: git worktree add,
\* persist record, open session).
C21_Original ==
    \A t \in Tasks :
       (task[t].op = "add_worktree" /\ task[t].pc = "spawn") =>
          /\ task[t].entry.id \in DOMAIN workspaces
          /\ task[t].entry.id \in DOMAIN persisted

\* ---------------------------------------------------------------- C22
\* The git commands of a rename_worktree call in the claimed order.
RenameCommands(st) ==
    << <<"branch -m", st.prev.branch, st.branch>>,
       <<"worktree move", st.prev.path, st.path>>,
       <<"branch -m", st.branch, st.prev.branch>> >>

\* Task t takes a step of its rename_worktree call in which it does not store
\* the renamed entry.
RenameStepWithoutStore(t) ==
    /\ task'[t] # task[t]
    /\ task'[t].op = "rename_worktree"
    /\ \/ task'[t].pc \in {"git", "move", "revert"}
       \/ task[t].pc = "revert"

\* C22: the git commands of a rename_worktree call are a prefix of branch -m old
\* new, worktree move old_path new_path, branch -m new old; the third runs only
\* after a failed move and the call then returns an error; and up to that return
\* no step of the call changes the map, the persisted list or the sessions.
C22_RenameRevert ==
    /\ [](\A t \in Tasks : task[t].op = "rename_worktree" =>
            /\ Len(task[t].git) <= 3
            /\ task[t].git = SubSeq(RenameCommands(task[t]), 1, Len(task[t].git))
            /\ Len(task[t].git) = 3 => (task[t].pc = "idle" /\ task[t].ret = "err")
            /\ task[t].pc = "revert" => Len(task[t].git) = 2)
    /\ [][\A t \in Tasks : RenameStepWithoutStore(t) =>
            /\ workspaces' = workspaces /\ persisted' = persisted
            /\ sessions' = sessions /\ killed' = killed
            /\ task[t].pc = "revert" => (task'[t].pc = "idle" /\ task'[t].ret = "err")
       ]_vars

\* A call on a connected worktree whose move failed has run the three commands
\* and returned the error.
C22_Witness ==
    \E t \in Tasks :
       /\ task[t].op = "rename_worktree" /\ task[t].pc = "idle" /\ task[t].ret = "err"
       /\ Len(task[t].git) = 3
       /\ task[t].id \in DOMAIN sessions
       /\ workspaces[task[t].id] = task[t].prev

\* ---------------------------------------------------------------- C23
\* The reader takes a line that is not JSON.
ReadsBadLine == lines' = lines + 1 /\ ~cur'.ok

\* C23: a line that is not JSON gives exactly one codex/parseError event on the
\* owner workspace, a blank line gives none; neither changes pending,
\* request_context, thread_workspace or the registrations, and the reader is
\* back at the top of its loop, where it takes the next line.
C23_ParseErrorContinues ==
    /\ [][ReadsBadLine =>
            /\ emitted' = IF cur' = BlankLine THEN <<>> ELSE <<ParseErrorEvent>>
            /\ ParseErrorEvent.workspace_id = owner_workspace_id
            /\ pending' = pending
            /\ request_context' = request_context
            /\ thread_workspace' = thread_workspace
            /\ UNCHANGED <<workspace_ids, workspace_roots, background_thread_callbacks>>
            /\ rpc' = "idle"
       ]_vars
    /\ []((rpc = "idle" /\ lines < MaxEventLines) => ENABLED ReadLine(EventTraffic, MaxEventLines))

\* A line that is not JSON was read while a request was registered, and the
\* event is out.
C23_Witness ==
    /\ cur = ParseErrorLine
    /\ emitted = <<ParseErrorEvent>>
    /\ request_context # EmptyMap
    /\ lines < MaxEventLines

\* A blank line was read after another line.
C23_WitnessBlank ==
    /\ cur = BlankLine
    /\ emitted = <<>>
    /\ lines = 2

\* ---- C24 ----
\* cwd matches the registered root of w: the normalized cwd is the root or
\* starts with the root followed by '/'.
CwdMatchesRoot(w) ==
    LET n == normalize_root_path(resolver.cwd) IN
    \/ resolver.roots[w] = n
    \/ starts_with(n, resolver.roots[w] \o <<Slash>>)

\* C24: the workspace resolve_workspace_for_cwd returns has a registered root
\* that the cwd matches, and no root the cwd matches is longer; it returns
\* nothing exactly when the cwd matches no registered root; a second spelling of
\* the cwd that normalizes to the same string gets the same result.
C24_ResolveLongestMatch ==
    /\ resolver.result # Unset =>
        /\ resolver.result # None =>
            /\ resolver.result \in DOMAIN resolver.roots
            /\ CwdMatchesRoot(resolver.result)
            /\ \A v \in DOMAIN resolver.roots :
                 CwdMatchesRoot(v) =>
                   Len(resolver.roots[v]) <= Len(resolver.roots[resolver.result])
        /\ resolver.result = None <=>
             ~ \E v \in DOMAIN resolver.roots : CwdMatchesRoot(v)
    /\ /\ resolver.alt_result # Unset
       /\ normalize_root_path(resolver.alt) = normalize_root_path(resolver.cwd)
       => resolver.alt_result = resolver.result

\* Two roots of different lengths match, the longer one's workspace came back,
\* and another spelling of the cwd was looked up as well.
C24_Witness ==
    /\ resolver.alt_result \notin {Unset, None}
    /\ resolver.alt # resolver.cwd
    /\ normalize_root_path(resolver.alt) = normalize_root_path(resolver.cwd)
    /\ \E v \in DOMAIN resolver.roots :
         /\ CwdMatchesRoot(v)
         /\ Len(resolver.roots[v]) < Len(resolver.roots[resolver.result])

\* Nothing came back although a workspace is registered with a root.
C24_WitnessNone ==
    /\ resolver.result = None
    /\ resolver.roots # EmptyMap
    /\ Len(normalize_root_path(resolver.cwd)) > 0

\* ---- C25 ----
\* C25: the workspace resolve_workspace_for_cwd returned is the one it returns
\* for the same roots and the same cwd under every iteration order of the map.
C25_Original ==
    resolver.result # Unset =>
      \A o \in IterationOrders :
        resolve_in_order(resolver.cwd, resolver.roots, o) = resolver.result

\* ---- C26 ----
\* C26: normalizing what normalize_root_path returned gives the same string.
C26_Original ==
    resolver.pc = "done" => resolver.twice = resolver.once

\* ---- C27 ----
\* C27: a value is sent on a request's channel only by the reader's pass over
\* a message that carries that request's id, and that step touches no other
\* channel and no call; a call that returns a value returns the one sent for
\* its own id; a call whose value was sent can return whatever the state of
\* the other calls.
C27_DeliveredByIdOnly ==
    /\ [][\A i \in DOMAIN chan :
            (chan[i].st # "sent" /\ chan'[i].st = "sent") =>
                /\ maybe_id(cur) = i
                /\ chan'[i].val = cur
                /\ \A j \in DOMAIN chan \ {i} : chan'[j] = chan[j]
                /\ call' = call]_vars
    /\ [](\A c \in Calls :
            /\ (Returned(c) /\ call[c].ret = "value") =>
                  maybe_id(call[c].val) = call[c].id
            /\ (call[c].pc = "await" /\ chan[call[c].id].st = "sent") =>
                  ENABLED ReqAwaitReady(c))

\* Two requests were written, the one with the higher id has returned its
\* answer and the one with the lower id is still waiting, nothing sent to it.
C27_Witness ==
    \E a, b \in Calls :
        /\ call[a].id # NoId
        /\ call[a].id < call[b].id
        /\ \E p, q \in DOMAIN wire : wire[p].id = call[a].id /\ wire[q].id = call[b].id
        /\ Returned(b)
        /\ call[b].ret = "value"
        /\ maybe_id(call[b].val) = call[b].id
        /\ call[a].pc = "await"
        /\ chan[call[a].id].st = "open"
        /\ delivered[call[a].id] = 0

\* ---- C28 ----
\* Call k of codex_login_cancel_core takes its first step.
CancelStarts(k) == login.cc[k].pc = "idle" /\ login'.cc[k].pc # "idle"

\* C28 (as stated): codex_login_cancel_core removes the entry of its workspace
\* and leaves the others; with no entry it returns canceled=false and sends
\* nothing; with a recorded login id (and a session) it sends account/login/cancel
\* with exactly that id; with a pending start it signals the codex_login_core
\* call that waits, and that call returns "Codex login canceled.".
C28_Original ==
    /\ [][\A k \in CancelCalls :
            CancelStarts(k) =>
              LET ws == login'.cc[k].ws
                  entry == cancel_entry(login.cancels, ws)
              IN /\ login'.cancels = Del(login.cancels, ws)
                 /\ entry.kind = "None" =>
                      /\ login'.cc[k].ret = "not canceled"
                      /\ login'.sent = login.sent
                 /\ (entry.kind = "LoginId" /\ ws \in login.connected) =>
                      login'.sent = Append(login.sent,
                                           Request("account/login/cancel", entry.login_id))
                 /\ entry.kind = "PendingStart" =>
                      /\ login.lc[entry.tx].rx = "empty" =>
                            /\ login'.lc[entry.tx].rx = "signaled"
                            /\ login'.lc[entry.tx].by_cancel
                      /\ login'.sent = login.sent]_vars
    /\ [](\A k \in LoginCalls :
            (login.lc[k].by_cancel /\ login.lc[k].pc = "done") =>
                login.lc[k].ret = "Codex login canceled.")

\* ---- C29 ----
\* The words of a command line that stand where an option is expected (not
\* where the value of --token, --listen or --data-dir is).
RECURSIVE Options(_, _)
Options(args, i) ==
    IF i > Len(args) THEN {}
    ELSE IF args[i] \in {"--token", "--listen", "--data-dir"}
    THEN {args[i]} \cup Options(args, i + 2)
    ELSE {args[i]} \cup Options(args, i + 1)

Contains(args, w) == w \in Options(args, 1)

\* C29 (as stated): a command line with both --token and --insecure-no-auth
\* (and no help flag) ends in exit code 2, and the daemon runs without a token
\* only when --insecure-no-auth was given and no token was, by --token or by
\* the environment.
C29_Original ==
    /\ (/\ cli.pc \in {"exited", "running"}
        /\ Contains(cli.args, "--token")
        /\ Contains(cli.args, "--insecure-no-auth")
        /\ ~Contains(cli.args, "-h"))
       => (cli.pc = "exited" /\ cli.exit_code = 2)
    /\ (cli.pc = "running" /\ cli.token = None)
       => /\ Contains(cli.args, "--insecure-no-auth")
          /\ ~Contains(cli.args, "--token")
          /\ env_token(cli.env) = None

\* ---- C30 ----
\* The background thread of the task is alive: the answer to thread/start that
\* carries its id has been read and delivered to the task, and the task has not
\* finished archiving it.
BackgroundThreadAlive(t) ==
    /\ bgtask.pc \notin {"off", "done"}
    /\ t \in DOMAIN resp_carried
    /\ \/ bgtask.thread_id = t
       \/ /\ bgtask.pc = "thread_start"
          /\ call[1].id # NoId
          /\ delivered[call[1].id] = 1
          /\ chan[call[1].id].st = "sent"
          /\ started_thread_id(chan[call[1].id].val) = t

\* C30 (as stated): while the background thread is alive nothing that carries
\* its thread id is emitted to the event sink.
C30_Original ==
    \A t \in Threads :
        BackgroundThreadAlive(t) =>
            \A i \in DOMAIN emitted : extract_thread_id(emitted[i].message) # t

\* ---- C31 ----
\* A request of the agent: an id and a method, neither result nor error.
ServerRequestLine(value) ==
    /\ value.ok
    /\ maybe_id(value) # NoId
    /\ has_method(value)
    /\ ~has_result_or_error(value)

\* A step of the reader: it reads a line or moves on in its pass.
ReaderStep == rpc' # rpc \/ lines' # lines

\* C31: the reader's pass over a message with an id and a method and neither
\* result nor error leaves pending, the channels and request_context as they
\* are, and ends with the message emitted as one event (or handed to the
\* thread's background subscriber), also when its id is that of a pending
\* request.
C31_ServerRequestIsEvent ==
    [][(ServerRequestLine(cur') /\ ReaderStep) =>
          /\ pending' = pending
          /\ request_context' = request_context
          /\ chan' = chan
          /\ delivered' = delivered
          /\ rpc' = "idle" =>
               \/ /\ Len(emitted') = 1
                  /\ emitted'[1].message = cur'
               \/ /\ Len(bgsent') = 1
                  /\ bgsent'[1].message = cur']_vars

\* The reader is done with an agent request whose id is that of a request
\* that is still waiting, with its slot and its context in place.
C31_Witness ==
    /\ rpc = "idle"
    /\ ServerRequestLine(cur)
    /\ Len(emitted) = 1
    /\ emitted[1].message = cur
    /\ maybe_id(cur) \in pending
    /\ maybe_id(cur) \in DOMAIN request_context
    /\ \E c \in Calls : /\ call[c].id = maybe_id(cur)
                        /\ call[c].pc = "await"
                        /\ chan[call[c].id].st = "open"

\* ---- C32 ----
\* The first of threadId, thread_id and thread.id of a container that is a
\* string.
first_string_candidate(container) ==
    IF ~container.present THEN None
    ELSE IF container.threadId \in Threads THEN container.threadId
    ELSE IF container.thread_id \in Threads THEN container.thread_id
    ELSE IF container.thread \in Threads THEN container.thread
    ELSE None

\* C32 (as stated): the thread id the reader extracts from a line is the first
\* string among threadId, thread_id and thread.id under params, else under
\* result; a candidate that is present but not a string is passed over for the
\* next one.
C32_Original ==
    (lines > 0 /\ cur.ok) =>
        extract_thread_id(cur) =
            IF first_string_candidate(cur.params) # None
            THEN first_string_candidate(cur.params)
            ELSE first_string_candidate(cur.result)


\* ------------------------------------------------------------- ListSpec
\* ListSpec: one thread/list request of workspace W2 on the session of W1, and
\* the answers to it: results that name thread T1 themselves, that list T1
\* with a cwd under the root of W1, or both.
MaxListCalls == 1
MaxListLines == 2
ListCalls == 1..MaxListCalls
ListReqs == {OutReq("W2", "thread/list", None)}
ListTraffic ==
    {Response(1, r, d) :
        r \in {EmptyObj, CamelObj("T1")},
        d \in {<<>>, <<Entry("T1", PathSubTrailing)>>, <<EntryNoCwd("T1")>>}}

ListNext ==
    \/ \E c \in ListCalls : ReqAlloc(c, ListReqs)
    \/ \E c \in ListCalls : ReqRegister(c)
    \/ \E c \in ListCalls : ReqInsertPending(c)
    \/ \E c \in ListCalls : ReqInsertContext(c)
    \/ \E c \in ListCalls : ReqWrite(c)
    \/ \E c \in ListCalls : ReqAwaitReady(c)
    \/ ReadLine(ListTraffic, MaxListLines)
    \/ ReaderPopContext
    \/ ReaderBindThread
    \/ ReaderListRoots
    \/ ReaderListInsert
    \/ ReaderRoute
    \/ ReaderDeliver

ListSpec == Init /\ [][ListNext]_vars

\* C33 (as stated): once the reader is past the thread/list walk of a response
\* that carries a thread id itself, the thread is bound to the workspace of the
\* request.
C33_Original ==
    (/\ rpc \in {"route", "pending"}
     /\ locals.request_method = "thread/list"
     /\ locals.request_workspace # None
     /\ extract_thread_id(cur) # None) =>
        Get(thread_workspace, extract_thread_id(cur)) = locals.request_workspace


\* ---- C34 ----
\* Call k of codex_login_core returns "Codex login canceled." in this step.
ReturnsCanceled(k) ==
    /\ login.lc[k].pc # "done"
    /\ login'.lc[k].pc = "done"
    /\ login'.lc[k].ret = "Codex login canceled."

\* C34 (as stated): when a call of codex_login_core that a second call for the
\* same workspace superseded returns "Codex login canceled.", the entry the
\* second call inserted stays in codex_login_cancels and the second call's
\* cancel channel stays open.
C34_Original ==
    [][\A k, j \in LoginCalls :
         (/\ k # j
          /\ ReturnsCanceled(k)
          /\ login.lc[j].pc \in {"poll", "wait"}
          /\ login.lc[j].ws = login.lc[k].ws
          /\ cancel_entry(login.cancels, login.lc[k].ws) = PendingStart(j)) =>
            /\ cancel_entry(login'.cancels, login.lc[k].ws) = PendingStart(j)
            /\ login'.lc[j].rx = login.lc[j].rx]_vars


\* ---- C39 ----
\* Call k of codex_login_core returns in this step.
LoginReturns(k) == login.lc[k].pc # "done" /\ login'.lc[k].pc = "done"

\* C39 (as stated): when codex_login_core returns a login id the workspace's
\* entry is LoginId of that id, and when it returns an error the entry is not
\* the PendingStart the call inserted.
C39_Original ==
    [][\A k \in LoginCalls :
         LoginReturns(k) =>
           LET entry == cancel_entry(login'.cancels, login'.lc[k].ws)
           IN IF login'.lc[k].ret = LoginIdOf(k)
              THEN entry = LoginId(LoginIdOf(k))
              ELSE entry # PendingStart(k)]_vars


\* ---- C35 ----
\* The sessions spawned so far whose child was not killed.
LiveSessions == (1..alloc.session) \ killed

\* The sessions the map references.
ReferencedSessions == {sessions[i] : i \in DOMAIN sessions}

\* C35 (as stated): with no handler under way, every agent subprocess that was
\* spawned and not killed is the session of some workspace in the sessions map.
C35_Original ==
    (\A t \in Tasks : task[t].pc = "idle") => LiveSessions \subseteq ReferencedSessions


\* ---- C36 ----
\* C36 (as stated): the rollback of a failed update_workspace_settings puts the
\* previous settings back into the record as it is now, leaving the record's
\* other fields as other handlers have set them meanwhile, and changes nothing
\* when the record is gone.
C36_Original ==
    [][\A t \in Tasks :
         TargetSpawnFails(t) =>
           LET st == task[t] IN
           workspaces' =
              IF st.id \in DOMAIN workspaces
              THEN [workspaces EXCEPT ![st.id].settings = st.prev.settings]
              ELSE workspaces]_vars


\* ------------------------------------------------------------- AuthSpec
\* AuthSpec: one connection of the daemon, with or without a token configured:
\* its lines before and after authentication, the broadcast channel with the
\* sessions emitting events, the forwarder and the write task.
AuthNext ==
    \/ AcceptAuthenticated(1)
    \/ AuthLine(1)
    \/ ImmediateRequestLine(1)
    \/ EmitAgentEvent
    \/ ForwardEvents(1)
    \/ SocketWrite(1)
    \/ CloseConnection(1)

AuthSpec == ConnInit /\ [][AuthNext]_vars

\* ---- C37 ----
\* Connection c becomes authenticated in this step.
BecomesAuthenticated(c) == hpc[c].pc = "auth" /\ hpc'[c].pc = "read"

\* The places of the event notifications in the out_tx of connection c.
EventPlaces(c) == {i \in DOMAIN outq[c] : outq[c][i].type = "event"}

\* C37: a connection spawns at most one forwarder, in the very step in which
\* it becomes authenticated (a later auth request spawns none); every event
\* in its out_tx was emitted after that step and stands behind the {ok:true}
\* reply to its auth request, and no event stands there twice.
C37_OneForwarder ==
    /\ [](\A c \in BConns :
            /\ subs[c].tasks <= 1
            /\ \A i \in EventPlaces(c) :
                 /\ outq[c][i].n > subs[c].from
                 /\ \A j \in DOMAIN outq[c] :
                      /\ outq[c][j] = AuthOk => j < i
                      /\ (j \in EventPlaces(c) /\ j # i) => outq[c][j].n # outq[c][i].n)
    /\ [][\A c \in BConns :
            subs'[c].tasks # subs[c].tasks <=> BecomesAuthenticated(c)]_vars

\* A connection with a token configured has its {ok:true} reply and an event
\* behind it written to the socket, an event was emitted before it
\* authenticated, and it has handled a line after the authentication with one
\* forwarder spawned.
C37_Witness ==
    /\ token # None
    /\ subs[1].tasks = 1
    /\ subs[1].from > 0
    /\ hpc[1].reqs = MaxBusRequests
    /\ Len(outq[1]) >= 3
    /\ outq[1][1] = AuthOk
    /\ outq[1][2].type = "event"
    /\ outq[1][3].type = "response"
    /\ sock[1].written >= 2


\* ------------------------------------------------------------- DesktopSpec
\* DesktopSpec: MaxDesktopCalls commands of the desktop app at a time, each
\* for one of the workspaces, and the agents' responses.
DesktopNext ==
    \/ \E k \in DesktopCalls, command \in DesktopCommands, ws \in DesktopWorkspaces :
         CommandLookup(k, command, ws)
    \/ \E k \in DesktopCalls : CommandSend(k)
    \/ \E k \in DesktopCalls : CommandResponse(k)

DesktopSpec == Init /\ [][DesktopNext]_vars

\* ---- C38 ----
\* C38 (as stated): a command that waits for the agent's response does not
\* hold the lock of the sessions map, so that a command for another workspace
\* can take it.
C38_Original ==
    \A k \in DesktopCalls : desktop.cmd[k].pc = "await" => desktop.lock # k

\* ----------------------------------------------------------- TailscaleSpec
\* TailscaleSpec: one call of tailscale_daemon_stop, with or without a child of
\* its own, a port in the configured address and a token, and what listens on
\* the port changing meanwhile.
TailscaleSpecInit ==
    /\ SessionInit /\ ConnInitWith("secret")
    /\ BusInit /\ HandshakeInit /\ RegistryInit /\ CoreInit /\ DesktopInit
    /\ \E child \in BOOLEAN, port \in BOOLEAN, tok \in RemoteTokens, l \in Listeners :
         tailscale = TailscaleIdle(child, port, tok, l)

TailscaleNext ==
    \/ \E l \in Listeners : ListenerChanges(l)
    \/ StopBegin
    \/ StopAct
    \/ StopFinish

TailscaleSpec == TailscaleSpecInit /\ [][TailscaleNext]_vars


\* ---- C40 ----
\* The call has returned and had no child of its own to stop.
StoppedForeign == tailscale.pc = "done" /\ ~tailscale.had_child

\* C40 (as stated): for a listener the app did not spawn, something is issued
\* only after the probe said Running; after NotDaemon nothing is issued and the
\* state is Error; after NotReachable nothing is issued; and the state is
\* Stopped exactly when the probe after the stop attempt gives NotReachable.
C40_Original ==
    StoppedForeign =>
        /\ tailscale.issued # <<>> => tailscale.probe.kind = "Running"
        /\ tailscale.probe.kind = "NotDaemon" =>
              tailscale.issued = <<>> /\ tailscale.state = "Error"
        /\ tailscale.probe.kind = "NotReachable" => tailscale.issued = <<>>
        /\ tailscale.state = "Stopped" <=> tailscale.after.kind = "NotReachable"

\* C40 (amended): for a listener the app did not spawn, something is issued
\* only after the probe said Running; after NotDaemon nothing is issued and the
\* status carries the refusal as its last error; after NotReachable nothing is
\* issued; and the state is Stopped when the probe after the stop attempt
\* gives NotReachable, and Error otherwise.
C40_StopsOnlyProbedDaemon ==
    StoppedForeign =>
        /\ tailscale.issued # <<>> => tailscale.probe.kind = "Running"
        /\ tailscale.probe.kind = "NotDaemon" =>
              tailscale.issued = <<>> /\ tailscale.last_error = Refusal
        /\ tailscale.probe.kind = "NotReachable" => tailscale.issued = <<>>
        /\ tailscale.state = "Stopped" <=> tailscale.after.kind = "NotReachable"
        /\ tailscale.state = "Error" <=> tailscale.after.kind # "NotReachable"

\* The probe found a process that is no daemon, nothing was issued, and the
\* probe after it found it still there: the state is Error with the refusal.
C40_Witness ==
    /\ StoppedForeign
    /\ tailscale.probe.kind = "NotDaemon"
    /\ tailscale.after.kind = "NotDaemon"
    /\ tailscale.issued = <<>>
    /\ tailscale.state = "Error"
    /\ tailscale.last_error = Refusal

\* The probe found a daemon, the shutdown was requested and the daemon went:
\* the state is Stopped.
C40_WitnessStopped ==
    /\ StoppedForeign
    /\ tailscale.probe.kind = "Running"
    /\ tailscale.issued = <<"request_daemon_shutdown">>
    /\ tailscale.after.kind = "NotReachable"
    /\ tailscale.state = "Stopped"
    /\ tailscale.changes = 0

====
